---- MODULE Spec2Model ----
(***************************************************************************)
(* Query validation and execution core of the semantic-web backend:        *)
(*   src/sparql_service.py        SPARQLQueryService (Validator, Sanitizer,*)
(*                                Executor with retry/backoff)             *)
(*   src/custom_query_service.py  CustomQueryService (SELECT-only policy)  *)
(*                                                                         *)
(* A query text is a sequence of characters (one-character strings).  One  *)
(* character, PAD, stands for a block of PadWidth '0' digits: no scan of   *)
(* the code matches inside such a block, only len() sees its width.        *)
(***************************************************************************)
EXTENDS Integers, Sequences, FiniteSets, TLC

\* ------------------------------------------------------------------ bounds
MaxFrags == 2
MaxRetriesCfg == 4

\* ------------------------------------------------------- program constants
max_query_length == 10000
default_max_retries == 3
custom_max_retries == 2
backoff_ms == 500

\* ------------------------------------------------------------- Python None
None == <<>>
Some(v) == <<v>>

\* ------------------------------------------------------------- characters
NUL == "NUL"
PAD == "PAD"
PadWidth == max_query_length - 7
Whitespace == {" ", "\n", "\t"}

UpperTable ==
  [a |-> "A", b |-> "B", c |-> "C", d |-> "D", e |-> "E", f |-> "F", g |-> "G",
   h |-> "H", i |-> "I", j |-> "J", k |-> "K", l |-> "L", m |-> "M", n |-> "N",
   o |-> "O", p |-> "P", q |-> "Q", r |-> "R", s |-> "S", t |-> "T", u |-> "U",
   v |-> "V", w |-> "W", x |-> "X", y |-> "Y", z |-> "Z"]

UpperChar(c) == IF c \in DOMAIN UpperTable THEN UpperTable[c] ELSE c

\* str.upper()
Upper(s) == [i \in 1..Len(s) |-> UpperChar(s[i])]

Width(c) == IF c = PAD THEN PadWidth ELSE 1

\* len(s): every character counts 1, a PAD block counts Width(PAD)
TextLen(s) == Len(s) + (Width(PAD) - 1) * Cardinality({i \in 1..Len(s) : s[i] = PAD})

\* s[i:].startswith(p)
MatchAt(s, i, p) ==
  /\ i >= 1
  /\ i + Len(p) - 1 <= Len(s)
  /\ s[i] = p[1]
  /\ \A k \in 2..Len(p) : s[i + k - 1] = p[k]

\* p in s
Contains(s, p) == \E i \in 1..(Len(s) - Len(p) + 1) : MatchAt(s, i, p)

\* s.find(p, i - 1) + 1: the first occurrence of p from i on, 0 if none
FindFrom(s, p, i) ==
  LET found == {j \in i..(Len(s) - Len(p) + 1) : MatchAt(s, j, p)}
  IN IF found = {} THEN 0 ELSE CHOOSE j \in found : \A k \in found : j <= k

RECURSIVE CountFrom(_, _, _)
CountFrom(s, p, i) ==
  LET j == FindFrom(s, p, i)
  IN IF j = 0 THEN 0 ELSE 1 + CountFrom(s, p, j + Len(p))

\* s.count(p): non-overlapping occurrences
Count(s, p) == CountFrom(s, p, 1)

\* s.count(c) for one character
CountChar(s, c) == Cardinality({i \in 1..Len(s) : s[i] = c})

\* index of the first non-whitespace character from i on, Len(s) + 1 if none
RECURSIVE FirstInk(_, _)
FirstInk(s, i) ==
  IF i > Len(s) \/ s[i] \notin Whitespace THEN i ELSE FirstInk(s, i + 1)

\* index of the last non-whitespace character up to i, 0 if none
RECURSIVE LastInk(_, _)
LastInk(s, i) ==
  IF i < 1 \/ s[i] \notin Whitespace THEN i ELSE LastInk(s, i - 1)

\* s.strip()
Strip(s) == SubSeq(s, FirstInk(s, 1), LastInk(s, Len(s)))

\* "not query or not query.strip()"
IsBlank(s) == s = <<>> \/ Strip(s) = <<>>

\* ------------------------------------------------------------------ words
W_SELECT == <<"S", "E", "L", "E", "C", "T">>
W_CONSTRUCT == <<"C", "O", "N", "S", "T", "R", "U", "C", "T">>
W_ASK == <<"A", "S", "K">>
W_DESCRIBE == <<"D", "E", "S", "C", "R", "I", "B", "E">>
W_INSERT == <<"I", "N", "S", "E", "R", "T">>
W_DELETE == <<"D", "E", "L", "E", "T", "E">>
W_DROP == <<"D", "R", "O", "P">>
W_CLEAR == <<"C", "L", "E", "A", "R">>
W_LOAD == <<"L", "O", "A", "D">>
W_SYSTEM == <<"S", "Y", "S", "T", "E", "M">>
W_EXEC == <<"E", "X", "E", "C">>
W_SHELL == <<"S", "H", "E", "L", "L">>
W_UNION == <<"U", "N", "I", "O", "N">>
W_WHERE == <<"W", "H", "E", "R", "E">>
W_PREFIX == <<"P", "R", "E", "F", "I", "X">>

\* re.compile(r'KW\s+', re.IGNORECASE).search(s)
SearchKeywordWs(s, kw) ==
  LET u == Upper(s)
  IN \E i \in 1..(Len(s) - Len(kw)) :
       /\ s[i + Len(kw)] \in Whitespace
       /\ MatchAt(u, i, kw)

\* re.compile(r';\s*KW\s+', re.IGNORECASE).search(s)
SearchSemicolonKeyword(s, kw) ==
  LET u == Upper(s)
  IN \E i \in 1..Len(s) :
       /\ s[i] = ";"
       /\ \E j \in (i + 1)..(Len(s) - Len(kw)) :
            /\ s[j + Len(kw)] \in Whitespace
            /\ MatchAt(u, j, kw)
            /\ \A k \in (i + 1)..(j - 1) : s[k] \in Whitespace

\* re.compile(r'UNION\s+SELECT.*--', re.IGNORECASE).search(s)
SearchUnionSelectComment(s) ==
  LET u == Upper(s)
  IN \E i \in 1..Len(s) :
    /\ MatchAt(u, i, W_UNION)
    /\ \E j \in (i + Len(W_UNION) + 1)..Len(s) :
         /\ \A k \in (i + Len(W_UNION))..(j - 1) : s[k] \in Whitespace
         /\ MatchAt(u, j, W_SELECT)
         /\ \E m \in (j + Len(W_SELECT))..(Len(s) - 1) :
              /\ s[m] = "-" /\ s[m + 1] = "-"
              /\ \A k \in (j + Len(W_SELECT))..(m - 1) : s[k] # "\n"

\* ------------------------------------------- sparql_service.py: Sanitizer
\* query.replace('\x00', '')
RemoveNul(s) == SelectSeq(s, LAMBDA c : c # NUL)

\* the characters of s at the positions in keep, in order
Kept(s, keep) ==
  LET idx == SelectSeq([i \in 1..Len(s) |-> i], LAMBDA i : i \in keep)
  IN IF idx = <<>> THEN <<>> ELSE [k \in 1..Len(idx) |-> s[idx[k]]]

\* re.sub(r'\s+', ' ', s)
\* every maximal run of whitespace becomes one space
CollapseWhitespace(s) ==
  LET spaced == [i \in 1..Len(s) |-> IF s[i] \in Whitespace THEN " " ELSE s[i]]
      EndsRun(i) == ~(s[i] \in Whitespace /\ i < Len(s) /\ s[i + 1] \in Whitespace)
  IN IF s = <<>> THEN <<>> ELSE Kept(spaced, {i \in 1..Len(s) : EndsRun(i)})

\* position i lies in a match of '#[^\n]*': a '#' at or before i, no newline up to i
InComment(s, i) ==
  \E j \in 1..i : s[j] = "#" /\ \A k \in j..i : s[k] # "\n"

\* re.sub(r'#[^\n]*', '', s)
RemoveComments(s) ==
  IF s = <<>> THEN <<>> ELSE Kept(s, {i \in 1..Len(s) : ~InComment(s, i)})

sanitize_query_input(query) ==
  IF query = <<>> THEN <<>>
  ELSE RemoveComments(CollapseWhitespace(Strip(RemoveNul(query))))

\* ------------------------------------------- sparql_service.py: Validator
\* mutant of ValidationResult: a result that carries suggestions is not valid
ValidationResult_SuggestionsBlock(is_valid, error_message, suggestions, query_type) ==
  [is_valid |-> is_valid /\ suggestions = None, error_message |-> error_message,
   suggestions |-> suggestions, query_type |-> query_type]

ValidationResult(is_valid, error_message, suggestions, query_type) ==
  [is_valid |-> is_valid, error_message |-> error_message,
   suggestions |-> suggestions, query_type |-> query_type]

\* mutant of query_patterns: ASK is tried before SELECT and CONSTRUCT
query_patterns_AskFirst ==
  << <<"ASK", W_ASK>>, <<"SELECT", W_SELECT>>, <<"CONSTRUCT", W_CONSTRUCT>>,
     <<"DESCRIBE", W_DESCRIBE>>, <<"INSERT", W_INSERT>>, <<"DELETE", W_DELETE>> >>

\* self.query_patterns, in dict order
query_patterns ==
  << <<"SELECT", W_SELECT>>, <<"CONSTRUCT", W_CONSTRUCT>>, <<"ASK", W_ASK>>,
     <<"DESCRIBE", W_DESCRIBE>>, <<"INSERT", W_INSERT>>, <<"DELETE", W_DELETE>> >>

\* the loop "for qtype, pattern in self.query_patterns.items()", from pattern i on
RECURSIVE PatternQueryTypeFrom(_, _)
PatternQueryTypeFrom(q, i) ==
  IF i > Len(query_patterns) THEN None
  ELSE IF SearchKeywordWs(q, query_patterns[i][2]) THEN Some(query_patterns[i][1])
  ELSE PatternQueryTypeFrom(q, i + 1)

PatternQueryType(q) == PatternQueryTypeFrom(q, 1)

\* mutant of UnbalancedBraces: only a missing '}' is noticed
UnbalancedBraces_MissingCloseOnly(q) == CountChar(q, "{") > CountChar(q, "}")

\* query.count('{') != query.count('}')
UnbalancedBraces(q) == CountChar(q, "{") # CountChar(q, "}")

\* self.injection_patterns
MatchesInjection(q) ==
  \/ SearchSemicolonKeyword(q, W_DROP)
  \/ SearchSemicolonKeyword(q, W_DELETE)
  \/ SearchSemicolonKeyword(q, W_INSERT)
  \/ SearchUnionSelectComment(q)

validate_query_syntax(query) ==
  IF IsBlank(query)
  THEN ValidationResult(FALSE, Some("Query cannot be empty"),
                        Some(<<"Provide a valid SPARQL query">>), None)
  ELSE
    LET q == Strip(query)
        query_type == PatternQueryType(q)
        s1 == IF query_type = Some("SELECT") /\ ~Contains(Upper(q), W_WHERE)
              THEN <<"Consider adding a WHERE clause for better query structure">>
              ELSE <<>>
        s2 == IF Contains(q, <<":">>) /\ ~Contains(Upper(q), W_PREFIX)
              THEN <<"Define PREFIX declarations for namespace shortcuts">>
              ELSE <<>>
        suggestions == s1 \o s2
    IN IF query_type = None
       THEN ValidationResult(FALSE,
              Some("Unknown query type. Query must start with SELECT, CONSTRUCT, ASK, DESCRIBE, INSERT, or DELETE"),
              Some(<<"Start your query with a valid SPARQL keyword",
                     "Example: SELECT ?s ?p ?o WHERE { ?s ?p ?o }">>), None)
       ELSE IF MatchesInjection(q)
       THEN ValidationResult(FALSE, Some("Query contains potentially unsafe patterns"),
              Some(<<"Remove suspicious SQL-like commands", "Use proper SPARQL syntax">>),
              None)
       ELSE IF UnbalancedBraces(q)
       THEN ValidationResult(FALSE, Some("Unbalanced braces in query"),
              Some(<<"Check that all { have matching }", "Verify WHERE clause syntax">>),
              None)
       ELSE ValidationResult(TRUE, None,
              IF suggestions = <<>> THEN None ELSE Some(suggestions), query_type)

\* ------------------------------- custom_query_service.py: policy checks
CustomQueryResult(success, data, error, execution_time, query_type, bindings_count, metadata) ==
  [success |-> success, data |-> data, error |-> error,
   execution_time |-> execution_time, query_type |-> query_type,
   bindings_count |-> bindings_count, metadata |-> metadata]

detect_query_type(query) ==
  LET query_upper == Strip(Upper(query))
  IN IF Contains(query_upper, W_SELECT \o <<" ">>) THEN "SELECT"
     ELSE IF Contains(query_upper, W_CONSTRUCT \o <<" ">>) THEN "CONSTRUCT"
     ELSE IF Contains(query_upper, W_ASK \o <<" ">>) THEN "ASK"
     ELSE IF Contains(query_upper, W_DESCRIBE \o <<" ">>) THEN "DESCRIBE"
     ELSE IF Contains(query_upper, W_INSERT \o <<" ">>) THEN "INSERT"
     ELSE IF Contains(query_upper, W_DELETE \o <<" ">>) THEN "DELETE"
     ELSE "UNKNOWN"

modification_keywords == {W_INSERT, W_DELETE, W_DROP, W_CLEAR, W_LOAD}
system_keywords == {W_SYSTEM, W_EXEC, W_SHELL}
max_unions == 10

\* mutant of check_dangerous_patterns: ten UNIONs already count as excessive
check_dangerous_patterns_TenUnions(query) ==
  LET query_upper == Upper(query)
      p1 == IF \E op \in modification_keywords : Contains(query_upper, op)
            THEN <<"modification_operations">> ELSE <<>>
      p2 == IF \E func \in system_keywords : Contains(query_upper, func)
            THEN <<"system_functions">> ELSE <<>>
      p3 == IF Count(query_upper, W_UNION) >= max_unions
            THEN <<"excessive_unions">> ELSE <<>>
  IN p1 \o p2 \o p3

check_dangerous_patterns(query) ==
  LET query_upper == Upper(query)
      p1 == IF \E op \in modification_keywords : Contains(query_upper, op)
            THEN <<"modification_operations">> ELSE <<>>
      p2 == IF \E func \in system_keywords : Contains(query_upper, func)
            THEN <<"system_functions">> ELSE <<>>
      p3 == IF Count(query_upper, W_UNION) > max_unions
            THEN <<"excessive_unions">> ELSE <<>>
  IN p1 \o p2 \o p3

\* ', '.join(parts)
RECURSIVE JoinComma(_)
JoinComma(parts) ==
  IF Len(parts) <= 1 THEN parts
  ELSE <<Head(parts), ", ">> \o JoinComma(Tail(parts))

\* the six returns of _validate_custom_query
RejectEmpty ==
  CustomQueryResult(FALSE, None, Some(<<"Query cannot be empty">>), None, None, None,
                    Some([validation_error |-> "empty_query"]))

RejectTooLong(q) ==
  CustomQueryResult(FALSE, None,
                    Some(<<"Query too long. Maximum length is ", "10000", " characters">>),
                    None, None, None,
                    Some([validation_error |-> "query_too_long",
                          query_length |-> TextLen(q)]))

RejectType(query_type) ==
  CustomQueryResult(FALSE, None,
                    Some(<<"Only SELECT queries are allowed", " for custom queries">>),
                    None, None, None,
                    Some([validation_error |-> "invalid_query_type",
                          detected_type |-> query_type]))

RejectSyntax(validation) ==
  CustomQueryResult(FALSE, None, Some(<<validation.error_message[1]>>), None, None, None,
                    Some([validation_error |-> "syntax_error",
                          suggestions |-> validation.suggestions]))

RejectDangerous(dangerous_patterns) ==
  CustomQueryResult(FALSE, None,
                    Some(<<"Query contains potentially dangerous patterns: ">>
                         \o JoinComma(dangerous_patterns)),
                    None, None, None,
                    Some([validation_error |-> "dangerous_patterns",
                          patterns |-> dangerous_patterns]))

Accept == CustomQueryResult(TRUE, None, None, None, None, None, None)

\* mutant of validate_custom_query_run: the SELECT-only check is missing
validate_custom_query_run_NoTypeCheck(query) ==
  IF IsBlank(query)
  THEN [result |-> RejectEmpty, checks |-> <<"empty">>]
  ELSE
    LET q == Strip(query)
    IN IF TextLen(q) > max_query_length
       THEN [result |-> RejectTooLong(q), checks |-> <<"empty", "length">>]
       ELSE IF ~validate_query_syntax(q).is_valid
       THEN [result |-> RejectSyntax(validate_query_syntax(q)),
             checks |-> <<"empty", "length", "validator">>]
       ELSE IF check_dangerous_patterns(q) # <<>>
       THEN [result |-> RejectDangerous(check_dangerous_patterns(q)),
             checks |-> <<"empty", "length", "validator", "dangerous">>]
       ELSE [result |-> Accept,
             checks |-> <<"empty", "length", "validator", "dangerous">>]

\* mutant of validate_custom_query_run: the dangerous-pattern scan runs before the Validator
validate_custom_query_run_ScanFirst(query) ==
  IF IsBlank(query)
  THEN [result |-> RejectEmpty, checks |-> <<"empty">>]
  ELSE
    LET q == Strip(query)
    IN IF TextLen(q) > max_query_length
       THEN [result |-> RejectTooLong(q), checks |-> <<"empty", "length">>]
       ELSE IF detect_query_type(q) # "SELECT"
       THEN [result |-> RejectType(detect_query_type(q)),
             checks |-> <<"empty", "length", "type">>]
       ELSE IF check_dangerous_patterns(q) # <<>>
       THEN [result |-> RejectDangerous(check_dangerous_patterns(q)),
             checks |-> <<"empty", "length", "type", "dangerous">>]
       ELSE IF ~validate_query_syntax(q).is_valid
       THEN [result |-> RejectSyntax(validate_query_syntax(q)),
             checks |-> <<"empty", "length", "type", "dangerous", "validator">>]
       ELSE [result |-> Accept,
             checks |-> <<"empty", "length", "type", "dangerous", "validator">>]

\* _validate_custom_query: result is what it returns, checks the conditions it
\* evaluated before returning, in order
validate_custom_query_run(query) ==
  IF IsBlank(query)
  THEN [result |-> RejectEmpty, checks |-> <<"empty">>]
  ELSE
    LET q == Strip(query)
        query_type == detect_query_type(q)
        validation == validate_query_syntax(q)
        dangerous_patterns == check_dangerous_patterns(q)
    IN IF TextLen(q) > max_query_length
       THEN [result |-> RejectTooLong(q), checks |-> <<"empty", "length">>]
       ELSE IF query_type # "SELECT"
       THEN [result |-> RejectType(query_type),
             checks |-> <<"empty", "length", "type">>]
       ELSE IF ~validation.is_valid
       THEN [result |-> RejectSyntax(validation),
             checks |-> <<"empty", "length", "type", "validator">>]
       ELSE IF dangerous_patterns # <<>>
       THEN [result |-> RejectDangerous(dangerous_patterns),
             checks |-> <<"empty", "length", "type", "validator", "dangerous">>]
       ELSE [result |-> Accept,
             checks |-> <<"empty", "length", "type", "validator", "dangerous">>]

\* ------------------------- custom_query_service.py: statistics, formatting
W_FILTER == <<"F", "I", "L", "T", "E", "R">>
W_OPTIONAL == <<"O", "P", "T", "I", "O", "N", "A", "L">>
W_LIMIT == <<"L", "I", "M", "I", "T">>
W_ORDER == <<"O", "R", "D", "E", "R">>
W_ORDER_BY == <<"O", "R", "D", "E", "R", " ", "B", "Y">>

estimate_complexity(query) ==
  LET score == (IF Contains(Upper(query), W_UNION) THEN 2 ELSE 0)
               + (IF Contains(Upper(query), W_OPTIONAL) THEN 1 ELSE 0)
               + (IF Contains(Upper(query), W_FILTER) THEN 1 ELSE 0)
               + (IF CountChar(query, "{") > 2 THEN 1 ELSE 0)
  IN IF score = 0 THEN "simple" ELSE IF score <= 2 THEN "moderate" ELSE "complex"

get_query_statistics(query) ==
  LET validation == validate_query_syntax(query)
  IN [query_length |-> TextLen(query),
      line_count |-> CountChar(query, "\n") + 1,
      query_type |-> validation.query_type,
      is_valid |-> validation.is_valid,
      has_prefixes |-> Contains(Upper(query), W_PREFIX),
      has_filter |-> Contains(Upper(query), W_FILTER),
      has_optional |-> Contains(Upper(query), W_OPTIONAL),
      has_union |-> Contains(Upper(query), W_UNION),
      estimated_complexity |-> estimate_complexity(query)]

get_query_suggestions(query) ==
  LET query_upper == Upper(query)
      a == IF ~Contains(query_upper, W_LIMIT)
           THEN <<"Consider adding a LIMIT clause to prevent large result sets">> ELSE <<>>
      b == IF Contains(query_upper, W_ORDER_BY) /\ ~Contains(query_upper, W_LIMIT)
           THEN <<"ORDER BY without LIMIT can be expensive for large datasets">> ELSE <<>>
      c == IF Contains(query, <<":">>) /\ ~Contains(query_upper, W_PREFIX)
           THEN <<"Define PREFIX declarations for better readability">> ELSE <<>>
      d == IF Contains(query_upper, W_OPTIONAL) /\ ~Contains(query_upper, W_FILTER)
           THEN <<"Consider adding FILTER clauses to optimize OPTIONAL patterns">> ELSE <<>>
  IN a \o b \o c \o d

\* uri.split(sep)[-1]
AfterLast(uri, sep) ==
  LET at == {i \in 1..Len(uri) : uri[i] = sep}
      last == CHOOSE i \in at : \A j \in at : j <= i
  IN SubSeq(uri, last + 1, Len(uri))

extract_local_name(uri) ==
  IF Contains(uri, <<"#">>) THEN AfterLast(uri, "#")
  ELSE IF Contains(uri, <<"/">>) THEN AfterLast(uri, "/")
  ELSE uri

\* dict.get(key) / dict.get(key, default)
Get(dict, key, default) == IF key \in DOMAIN dict THEN dict[key] ELSE default

Range(seq) == {seq[i] : i \in 1..Len(seq)}

format_binding(binding, variables) ==
  [var \in Range(variables) |->
     IF var \in DOMAIN binding
     THEN LET value_info == binding[var]
              base == [value |-> Get(value_info, "value", <<>>),
                       type |-> Get(value_info, "type", "literal"),
                       datatype |-> IF "datatype" \in DOMAIN value_info
                                    THEN Some(value_info.datatype) ELSE None,
                       xml_lang |-> IF "xml:lang" \in DOMAIN value_info
                                    THEN Some(value_info["xml:lang"]) ELSE None]
          IN IF Get(value_info, "type", "none") = "uri"
             THEN Some([value |-> base.value, type |-> base.type,
                        datatype |-> base.datatype, xml_lang |-> base.xml_lang,
                        local_name |-> extract_local_name(Get(value_info, "value", <<>>))])
             ELSE Some(base)
     ELSE None]

format_query_results(raw_results, query) ==
  IF DOMAIN raw_results = {} \/ "results" \notin DOMAIN raw_results
  THEN [variables |-> <<>>, bindings |-> <<>>, bindings_count |-> 0, formatted |-> TRUE]
  ELSE
    LET results == raw_results.results
        variables == Get(results, "vars", <<>>)
        bindings == Get(results, "bindings", <<>>)
        formatted_bindings ==
          [i \in 1..Len(bindings) |-> format_binding(bindings[i], variables)]
    IN [variables |-> variables,
        bindings |-> formatted_bindings,
        bindings_count |-> Len(formatted_bindings),
        formatted |-> TRUE,
        query_info |-> [query_type |-> detect_query_type(query),
                        has_limit |-> Contains(Upper(query), W_LIMIT),
                        has_order |-> Contains(Upper(query), W_ORDER)]]

\* -------------------------------------------------------- request inputs
RECURSIVE Flatten(_)
Flatten(parts) == IF parts = <<>> THEN <<>> ELSE Head(parts) \o Flatten(Tail(parts))

RECURSIVE Repeat(_, _)
Repeat(w, n) == IF n = 0 THEN <<>> ELSE w \o Repeat(w, n - 1)

F_SELECT == W_SELECT \o <<" ">>
F_CONSTRUCT == W_CONSTRUCT \o <<" ">>
F_ASK == W_ASK \o <<" ">>
F_DESCRIBE == W_DESCRIBE \o <<" ">>
F_INSERT == W_INSERT \o <<" ">>
F_DELETE == W_DELETE \o <<" ">>
F_VAR == <<"?", "s">>
F_drop == <<"d", "r", "o", "p">>
F_INJECT == <<";", " ">> \o W_DROP \o <<" ">>
F_UNION5 == Repeat(W_UNION \o <<" ">>, 5)
F_UNION6 == Repeat(W_UNION \o <<" ">>, 6)

F_COMMENT == <<"#", "}">>
F_SELECT_NL == W_SELECT \o <<"\n">>

CustomHeads == {<<>>, F_SELECT}

CustomFrags ==
  {F_SELECT, F_CONSTRUCT, F_ASK, F_DESCRIBE, F_INSERT, F_DELETE, F_VAR, <<"{">>, <<"}">>,
   <<PAD>>, F_drop, W_SHELL, F_INJECT, F_UNION5, F_UNION6, F_COMMENT, <<"\n">>,
   F_SELECT_NL}

\* a head followed by at most n fragments
QueriesOf(heads, frags, n) ==
  {h \o Flatten(parts) : h \in heads, parts \in UNION {[1..k -> frags] : k \in 0..n}}

CustomQueries == QueriesOf(CustomHeads, CustomFrags, MaxFrags)

ExecQueries ==
  {<<>>,
   <<"\n">>,
   F_VAR,
   F_SELECT \o F_VAR,
   F_DELETE \o F_VAR,
   <<NUL>> \o F_SELECT \o F_VAR \o <<"\n">>,
   F_SELECT \o <<"{">>,
   F_SELECT \o <<"#", "{">>,
   F_SELECT \o <<"{", "#", "\n", "}">>,
   F_SELECT \o F_INJECT \o F_VAR}

\* ------------------------------------------------------------- the store
URI_A == <<"h", ":", "/", "x", "#", "A">>

SelectResponse ==
  [head |-> [vars |-> <<"s">>],
   results |-> [bindings |-> << [s |-> [type |-> "uri", value |-> URI_A]] >>]]

AskResponse == [head |-> [link |-> <<>>], boolean |-> TRUE]

Responses == {SelectResponse, AskResponse}

\* str(e) of exceptions derived from SPARQLWrapperException
QueryLevelErrors == {"QueryBadFormed", "EndPointNotFound"}

\* str(e) of any other exception raised by sparql.query().convert()
UnexpectedErrors == {"URLError", "timed out"}

\* str(e) of the TypeError raised by "'results' in None"
NoneTypeError == "argument of type 'NoneType' is not iterable"

\* ----------------------------------------------------------------- state
VARIABLES
  req,                \* entry point of the request
  query,              \* the request's query text
  validate,           \* validate argument of execute_query_with_validation
  format_results,     \* format_results argument of execute_custom_query, once read
  max_retries,        \* self.max_retries of the SPARQLQueryService used
  pc,                 \* position of the request
  validation_result,  \* execute_custom_query: validation_result
  checks,             \* policy conditions evaluated by _validate_custom_query
  squery,             \* execute_query_with_validation: query after sanitizing
  attempt,            \* _execute_with_retry: loop variable
  last_error,         \* _execute_with_retry: last_error
  sent,               \* query texts given to sparql.query(), in order
  outcomes,           \* what each store call ended in, in order
  sleeps,             \* time.sleep() durations in ms, in order
  clock,              \* ms elapsed since the request started
  qresult,            \* QueryResult returned by execute_query_with_validation
  result,             \* value returned to the caller of the entry point
  detected_type,      \* validate_query_syntax, called directly: its local query_type
  http_status,        \* POST /sparql/query: status code of the response, once sent
  fuseki_connection,  \* perform_health_check: fuseki_connection
  count_results,      \* what execute_query_with_validation gave each count query
  counts,             \* validate_ontology_data: the counts obtained so far, in order
  ontology_validation, \* OntologyValidationResult returned by validate_ontology_data
  system_metrics,     \* perform_health_check: system_metrics
  errors,             \* perform_health_check: errors
  warnings,           \* perform_health_check: warnings
  health_status,      \* HealthStatus returned by perform_health_check
  question,           \* generate_sparql: the question asked
  question_type,      \* generate_sparql: question_type
  extracted,          \* generate_sparql: name or person_type, once extracted
  generated,          \* what each call of generate_sparql(question) ended in, in order
  default_service,    \* sparql_service._default_service: the instance, once there is one
  health_service,     \* health_monitoring_service._health_service, likewise
  services,           \* fuseki_endpoint of each SPARQLQueryService constructed, in order
  monitors,           \* sparql_service of each HealthMonitoringService constructed
  threads,            \* each request thread: position, arguments and locals
  calls               \* the calls of the two accessors that have returned, in order

vars == <<req, query, validate, format_results, max_retries, pc, validation_result,
          checks, squery, attempt, last_error, sent, outcomes, sleeps, clock,
          qresult, result, detected_type, http_status, fuseki_connection,
          count_results, counts, ontology_validation, system_metrics, errors,
          warnings, health_status, question, question_type, extracted, generated,
          default_service, health_service, services, monitors, threads, calls>>

\* state of the services a request to the SPARQL services does not touch
HealthVars == <<fuseki_connection, count_results, counts, ontology_validation,
                system_metrics, errors, warnings, health_status>>

\* state of the natural-language transformer
TransformerVars == <<question, question_type, extracted, generated>>

\* the process-wide service instances and the threads that ask for them
SingletonVars == <<default_service, health_service, services, monitors, threads, calls>>

OtherVars == <<detected_type, http_status, HealthVars, TransformerVars, SingletonVars>>

\* no direct call of the Validator is in progress
IdleValidator == detected_type = None

\* no response has been sent
IdleRoute == http_status = None

\* no health check is in progress
IdleHealth ==
  /\ fuseki_connection = None
  /\ count_results = <<>>
  /\ counts = <<>>
  /\ ontology_validation = None
  /\ system_metrics = None
  /\ errors = <<>>
  /\ warnings = <<>>
  /\ health_status = None

\* no question is being transformed
IdleTransformer ==
  /\ question = <<>>
  /\ question_type = None
  /\ extracted = None
  /\ generated = <<>>

Threads == {1, 2}

\* a thread that is in no call
IdleThread == [pc |-> "idle", endpoint |-> None, fresh |-> None, sparql_service |-> None]

\* the modules are imported and no thread has asked for a service
IdleSingleton ==
  /\ default_service = None
  /\ health_service = None
  /\ services = <<>>
  /\ monitors = <<>>
  /\ threads = [t \in Threads |-> IdleThread]
  /\ calls = <<>>

IdleOther == IdleValidator /\ IdleRoute /\ IdleHealth /\ IdleTransformer /\ IdleSingleton

QueryResult(success, data, error, execution_time, query_type, bindings_count) ==
  [success |-> success, data |-> data, error |-> error,
   execution_time |-> execution_time, query_type |-> query_type,
   bindings_count |-> bindings_count]

InitLocals ==
  /\ validation_result = None
  /\ checks = <<>>
  /\ squery = None
  /\ attempt = 0
  /\ last_error = None
  /\ sent = <<>>
  /\ outcomes = <<>>
  /\ sleeps = <<>>
  /\ clock = 0
  /\ qresult = None
  /\ result = None

\* POST /sparql/query and POST /sparql/validate: CustomQueryService
InitCustom ==
  /\ req \in {"custom", "validate_only"}
  /\ query \in CustomQueries
  /\ validate = TRUE
  /\ format_results = None
  /\ max_retries = custom_max_retries
  /\ pc = "start"
  /\ InitLocals
  /\ IdleOther

\* a direct caller of SPARQLQueryService.execute_query_with_validation
InitExec ==
  /\ req = "execute"
  /\ query \in ExecQueries
  /\ validate \in BOOLEAN
  /\ format_results = None
  /\ max_retries \in (0..MaxRetriesCfg) \cup {default_max_retries}
  /\ pc = "exec_entry"
  /\ InitLocals
  /\ IdleOther

Init == InitCustom \/ InitExec

\* ------------------------------------- CustomQueryService entry points
ExecVars == <<squery, attempt, last_error, sent, outcomes, sleeps, clock, qresult>>
InputVars == <<req, query, validate, max_retries>>
CallerVars == <<InputVars, format_results, validation_result, checks>>

\* mutant of ExecuteCustomValidate: the Executor is called whatever the policy says
ExecuteCustomValidate_NoEarlyReturn ==
  /\ pc = "start"
  /\ req = "custom"
  /\ LET run == validate_custom_query_run(query)
     IN /\ validation_result' = Some(run.result)
        /\ checks' = run.checks
  /\ result' = result
  /\ pc' = "exec_entry"
  /\ UNCHANGED <<OtherVars, InputVars, format_results, ExecVars>>

\* execute_custom_query, lines 83-96: policy checks, then the call of the Executor
ExecuteCustomValidate ==
  /\ pc = "start"
  /\ req = "custom"
  /\ LET run == validate_custom_query_run(query)
     IN /\ validation_result' = Some(run.result)
        /\ checks' = run.checks
        /\ IF ~run.result.success
           THEN /\ result' = Some(run.result)
                /\ pc' = "done"
           ELSE /\ result' = result
                /\ pc' = "exec_entry"
  /\ UNCHANGED <<OtherVars, InputVars, format_results, ExecVars>>

\* validate_query_syntax of CustomQueryService (validateOnly)
ValidateOnly ==
  /\ pc = "start"
  /\ req = "validate_only"
  /\ LET run == validate_custom_query_run(query)
     IN /\ validation_result' = Some(run.result)
        /\ checks' = run.checks
        /\ result' =
             IF run.result.success
             THEN Some(CustomQueryResult(TRUE,
                    Some([is_valid |-> TRUE,
                          query_type |-> detect_query_type(query),
                          statistics |-> get_query_statistics(query),
                          suggestions |-> get_query_suggestions(query)]),
                    None, None, None, None, Some([validation_only |-> TRUE])))
             ELSE Some(run.result)
  /\ pc' = "done"
  /\ UNCHANGED <<OtherVars, InputVars, format_results, ExecVars>>

\* ------------------------------------------ SPARQLQueryService: Executor
\* mutant of ExecuteQueryWithValidation: the raw query is validated, not the sanitized one
ExecuteQueryWithValidation_ValidatesRaw ==
  /\ pc = "exec_entry"
  /\ squery' = Some(sanitize_query_input(query))
  /\ LET validation == validate_query_syntax(query)
     IN IF validate /\ ~validation.is_valid
        THEN /\ qresult' = Some(QueryResult(FALSE, None,
                              Some(<<"Query validation failed: ", validation.error_message[1]>>),
                              Some(clock), None, None))
             /\ pc' = "exec_return"
        ELSE /\ qresult' = qresult
             /\ pc' = "retry"
  /\ attempt' = 0
  /\ last_error' = None
  /\ UNCHANGED <<OtherVars, CallerVars, sent, outcomes, sleeps, clock, result>>

\* execute_query_with_validation, lines 241-260: sanitize, validate, enter the loop
ExecuteQueryWithValidation ==
  /\ pc = "exec_entry"
  /\ squery' = Some(sanitize_query_input(query))
  /\ LET validation == validate_query_syntax(sanitize_query_input(query))
     IN IF validate /\ ~validation.is_valid
        THEN /\ qresult' = Some(QueryResult(FALSE, None,
                              Some(<<"Query validation failed: ", validation.error_message[1]>>),
                              Some(clock), None, None))
             /\ pc' = "exec_return"
        ELSE /\ qresult' = qresult
             /\ pc' = "retry"
  /\ attempt' = 0
  /\ last_error' = None
  /\ UNCHANGED <<OtherVars, CallerVars, sent, outcomes, sleeps, clock, result>>

\* mutant of InLoop: one iteration too many
InLoop_OffByOne == pc = "retry" /\ attempt <= max_retries

\* "for attempt in range(self.max_retries)": the loop body runs
InLoop == pc = "retry" /\ attempt < max_retries

\* mutant of BackoffDelay: exponential backoff, 0.5 * 2^attempt seconds
BackoffDelay_Exponential(a) == backoff_ms * (2 ^ a)

\* 0.5 * (attempt + 1) seconds, in ms
BackoffDelay(a) == backoff_ms * (a + 1)

\* mutant of SleepsAfter: sleeps after the final attempt too
SleepsAfter_Always(a) == a < max_retries

\* "if attempt < self.max_retries - 1"
SleepsAfter(a) == a < max_retries - 1

\* bindings_count of lines 285-287
BindingsCount(results) ==
  IF "results" \in DOMAIN results /\ "bindings" \in DOMAIN results.results
  THEN Some(Len(results.results.bindings))
  ELSE None

\* lines 275-296: the store answers
AttemptSuccess(results) ==
  /\ InLoop
  /\ sent' = Append(sent, squery[1])
  /\ outcomes' = Append(outcomes, [kind |-> "success", exc |-> "none"])
  /\ qresult' = Some(QueryResult(TRUE, Some(results), None, Some(clock), None,
                                 BindingsCount(results)))
  /\ pc' = "exec_return"
  /\ UNCHANGED <<OtherVars, CallerVars, squery, attempt, last_error,
                 sleeps, clock, result>>

\* lines 298-303: except SPARQLWrapperException
AttemptQueryError(e) ==
  /\ InLoop
  /\ sent' = Append(sent, squery[1])
  /\ outcomes' = Append(outcomes, [kind |-> "query_error", exc |-> e])
  /\ last_error' = Some(<<"SPARQL error: ", e>>)
  /\ IF SleepsAfter(attempt)
     THEN /\ sleeps' = Append(sleeps, BackoffDelay(attempt))
          /\ clock' = clock + BackoffDelay(attempt)
     ELSE UNCHANGED <<sleeps, clock>>
  /\ attempt' = attempt + 1
  /\ UNCHANGED <<OtherVars, CallerVars, squery, qresult, pc, result>>

\* mutant of AttemptUnexpectedError: no break, the loop goes on
AttemptUnexpectedError_NoBreak(e) ==
  /\ pc = "retry" /\ attempt < max_retries
  /\ sent' = Append(sent, squery[1])
  /\ outcomes' = Append(outcomes, [kind |-> "unexpected", exc |-> e])
  /\ last_error' = Some(<<"Unexpected error: ", e>>)
  /\ attempt' = attempt + 1
  /\ UNCHANGED <<OtherVars, CallerVars, squery, sleeps, clock, qresult, pc,
                 result>>

\* lines 305-314: except Exception, break, return the failure
AttemptUnexpectedError(e) ==
  /\ InLoop
  /\ sent' = Append(sent, squery[1])
  /\ outcomes' = Append(outcomes, [kind |-> "unexpected", exc |-> e])
  /\ last_error' = Some(<<"Unexpected error: ", e>>)
  /\ qresult' = Some(QueryResult(FALSE, None, last_error', Some(clock), None, None))
  /\ pc' = "exec_return"
  /\ UNCHANGED <<OtherVars, CallerVars, squery, attempt, sleeps, clock,
                 result>>

\* convert() gives None: "'results' in results" raises TypeError, lines 286, 305-314
AttemptNoneResponse ==
  /\ InLoop
  /\ sent' = Append(sent, squery[1])
  /\ outcomes' = Append(outcomes, [kind |-> "unexpected", exc |-> NoneTypeError])
  /\ last_error' = Some(<<"Unexpected error: ", NoneTypeError>>)
  /\ qresult' = Some(QueryResult(FALSE, None, last_error', Some(clock), None, None))
  /\ pc' = "exec_return"
  /\ UNCHANGED <<OtherVars, CallerVars, squery, attempt, sleeps, clock,
                 result>>

\* the loop ends without a return: lines 310-314
RetriesExhausted ==
  /\ pc = "retry"
  /\ attempt >= max_retries
  /\ qresult' = Some(QueryResult(FALSE, None, last_error, Some(clock), None, None))
  /\ pc' = "exec_return"
  /\ UNCHANGED <<OtherVars, CallerVars, squery, attempt, last_error, sent,
                 outcomes, sleeps, clock, result>>

\* the direct caller receives the QueryResult
ExecuteReturn ==
  /\ pc = "exec_return"
  /\ req = "execute"
  /\ result' = qresult
  /\ pc' = "done"
  /\ UNCHANGED <<OtherVars, CallerVars, ExecVars>>

\* execute_custom_query, lines 98-131, called with format_results = fmt
ExecuteCustomFinish(fmt) ==
  /\ pc = "exec_return"
  /\ req = "custom"
  /\ format_results' = Some(fmt)
  /\ LET sparql_result == qresult[1]
         execution_time == Some(clock)
         formatted_data == IF fmt
                           THEN format_query_results(sparql_result.data[1], query)
                           ELSE sparql_result.data[1]
         metadata == [query_length |-> TextLen(query),
                      execution_time |-> execution_time,
                      bindings_count |-> sparql_result.bindings_count,
                      query_type |-> detect_query_type(query),
                      timeout_used |-> 30]
     IN result' =
          IF ~sparql_result.success
          THEN Some(CustomQueryResult(FALSE, None, sparql_result.error, execution_time,
                                      Some(detect_query_type(query)), None, None))
          ELSE Some(CustomQueryResult(TRUE, Some(formatted_data), None, execution_time,
                                      Some(detect_query_type(query)),
                                      sparql_result.bindings_count, Some(metadata)))
  /\ pc' = "done"
  /\ UNCHANGED <<OtherVars, InputVars, validation_result, checks, ExecVars>>

Next ==
  \/ ExecuteCustomValidate
  \/ ValidateOnly
  \/ ExecuteQueryWithValidation
  \/ \E results \in Responses : AttemptSuccess(results)
  \/ \E e \in QueryLevelErrors : AttemptQueryError(e)
  \/ \E e \in UnexpectedErrors : AttemptUnexpectedError(e)
  \/ AttemptNoneResponse
  \/ RetriesExhausted
  \/ ExecuteReturn
  \/ \E fmt \in BOOLEAN : ExecuteCustomFinish(fmt)

Spec == Init /\ [][Next]_vars

\* ------------------------------ direct calls of the Sanitizer and the Validator
MaxTextLen == 4

SanitizeChars == {" ", "\n", "\t", NUL, "#", "a"}

\* texts of at most n characters over chars
TextsOf(chars, n) == UNION {[1..k -> chars] : k \in 0..n}

SanitizeInputs == TextsOf(SanitizeChars, MaxTextLen)

\* a caller about to sanitize a text (and to sanitize the outcome once more)
InitSanitize ==
  /\ req = "sanitize"
  /\ query \in SanitizeInputs
  /\ validate = TRUE
  /\ format_results = None
  /\ max_retries = default_max_retries
  /\ pc = "start"
  /\ InitLocals
  /\ IdleOther

\* query = sanitize_query_input(query)
SanitizeQueryInput ==
  /\ pc = "start"
  /\ req = "sanitize"
  /\ squery' = Some(sanitize_query_input(query))
  /\ pc' = "sanitized"
  /\ UNCHANGED <<OtherVars, CallerVars, attempt, last_error, sent, outcomes, sleeps, clock,
                 qresult, result>>

\* sanitize_query_input applied to its own outcome
SanitizeAgain ==
  /\ pc = "sanitized"
  /\ req = "sanitize"
  /\ result' = Some(sanitize_query_input(squery[1]))
  /\ pc' = "done"
  /\ UNCHANGED <<OtherVars, CallerVars, ExecVars>>

NextSanitize == SanitizeQueryInput \/ SanitizeAgain

SpecSanitize == InitSanitize /\ [][NextSanitize]_vars

MaxValidateFrags == 2

F_PREFIX_DECL == W_PREFIX \o <<" ", ":", " ", "<", "x", ">", " ">>
F_select_tab == <<"s", "e", "l", "e", "c", "t", "\t">>
F_ASK_NL == W_ASK \o <<"\n">>
F_WHERE == W_WHERE \o <<" ">>

ValidateHeads == {<<>>, F_PREFIX_DECL}

ValidateFrags ==
  {F_SELECT, F_select_tab, F_CONSTRUCT, F_ASK_NL, F_DESCRIBE, F_INSERT, F_DELETE, W_ASK,
   <<"{">>, <<"}">>, <<":">>, F_WHERE, F_INJECT, <<" ">>}

ValidateTails == {<<>>, F_VAR}

ValidateInputs ==
  {q \o t : q \in QueriesOf(ValidateHeads, ValidateFrags, MaxValidateFrags),
            t \in ValidateTails}

\* a caller about to validate a text
InitValidate ==
  /\ req = "validate"
  /\ query \in ValidateInputs
  /\ validate = TRUE
  /\ format_results = None
  /\ max_retries = default_max_retries
  /\ pc = "start"
  /\ InitLocals
  /\ IdleOther

\* validate_query_syntax(query); detected_type is its local query_type when it returns
ValidateQuerySyntax ==
  /\ pc = "start"
  /\ req = "validate"
  /\ detected_type' = IF IsBlank(query) THEN None ELSE PatternQueryType(Strip(query))
  /\ validation_result' = Some(validate_query_syntax(query))
  /\ result' = validation_result'
  /\ pc' = "done"
  /\ UNCHANGED <<InputVars, format_results, checks, ExecVars, http_status, HealthVars,
                 TransformerVars, SingletonVars>>

NextValidate == ValidateQuerySyntax

SpecValidate == InitValidate /\ [][NextValidate]_vars

\* ------------------------------------------- custom_query/routes.py: POST /sparql/query
LowerTable ==
  [A |-> "a", B |-> "b", C |-> "c", D |-> "d", E |-> "e", F |-> "f", G |-> "g",
   H |-> "h", I |-> "i", J |-> "j", K |-> "k", L |-> "l", M |-> "m", N |-> "n",
   O |-> "o", P |-> "p", Q |-> "q", R |-> "r", S |-> "s", T |-> "t", U |-> "u",
   V |-> "v", W |-> "w", X |-> "x", Y |-> "y", Z |-> "z"]

LowerChar(c) == IF c \in DOMAIN LowerTable THEN LowerTable[c] ELSE c

\* str.lower()
Lower(s) == [i \in 1..Len(s) |-> LowerChar(s[i])]

\* the characters of each piece of text the services build error messages from
Spell(piece) ==
  CASE piece = "Query cannot be empty" ->
      <<"Q", "u", "e", "r", "y", " ", "c", "a", "n", "n", "o", "t", " ", "b", "e", " ",
        "e", "m", "p", "t", "y">>
    [] piece = "Query too long. Maximum length is " ->
      <<"Q", "u", "e", "r", "y", " ", "t", "o", "o", " ", "l", "o", "n", "g", ".", " ",
        "M", "a", "x", "i", "m", "u", "m", " ", "l", "e", "n", "g", "t", "h", " ", "i",
        "s", " ">>
    [] piece = "10000" ->
      <<"1", "0", "0", "0", "0">>
    [] piece = " characters" ->
      <<" ", "c", "h", "a", "r", "a", "c", "t", "e", "r", "s">>
    [] piece = "Only SELECT queries are allowed" ->
      <<"O", "n", "l", "y", " ", "S", "E", "L", "E", "C", "T", " ", "q", "u", "e", "r",
        "i", "e", "s", " ", "a", "r", "e", " ", "a", "l", "l", "o", "w", "e", "d">>
    [] piece = " for custom queries" ->
      <<" ", "f", "o", "r", " ", "c", "u", "s", "t", "o", "m", " ", "q", "u", "e", "r",
        "i", "e", "s">>
    [] piece = "Query contains potentially dangerous patterns: " ->
      <<"Q", "u", "e", "r", "y", " ", "c", "o", "n", "t", "a", "i", "n", "s", " ", "p",
        "o", "t", "e", "n", "t", "i", "a", "l", "l", "y", " ", "d", "a", "n", "g", "e",
        "r", "o", "u", "s", " ", "p", "a", "t", "t", "e", "r", "n", "s", ":", " ">>
    [] piece = "modification_operations" ->
      <<"m", "o", "d", "i", "f", "i", "c", "a", "t", "i", "o", "n", "_", "o", "p", "e",
        "r", "a", "t", "i", "o", "n", "s">>
    [] piece = "system_functions" ->
      <<"s", "y", "s", "t", "e", "m", "_", "f", "u", "n", "c", "t", "i", "o", "n", "s">>
    [] piece = "excessive_unions" ->
      <<"e", "x", "c", "e", "s", "s", "i", "v", "e", "_", "u", "n", "i", "o", "n", "s">>
    [] piece = ", " ->
      <<",", " ">>
    [] piece = "Unknown query type. Query must start with SELECT, CONSTRUCT, ASK, DESCRIBE, INSERT, or DELETE" ->
      <<"U", "n", "k", "n", "o", "w", "n", " ", "q", "u", "e", "r", "y", " ", "t", "y",
        "p", "e", ".", " ", "Q", "u", "e", "r", "y", " ", "m", "u", "s", "t", " ", "s",
        "t", "a", "r", "t", " ", "w", "i", "t", "h", " ", "S", "E", "L", "E", "C", "T",
        ",", " ", "C", "O", "N", "S", "T", "R", "U", "C", "T", ",", " ", "A", "S", "K",
        ",", " ", "D", "E", "S", "C", "R", "I", "B", "E", ",", " ", "I", "N", "S", "E",
        "R", "T", ",", " ", "o", "r", " ", "D", "E", "L", "E", "T", "E">>
    [] piece = "Query contains potentially unsafe patterns" ->
      <<"Q", "u", "e", "r", "y", " ", "c", "o", "n", "t", "a", "i", "n", "s", " ", "p",
        "o", "t", "e", "n", "t", "i", "a", "l", "l", "y", " ", "u", "n", "s", "a", "f",
        "e", " ", "p", "a", "t", "t", "e", "r", "n", "s">>
    [] piece = "Unbalanced braces in query" ->
      <<"U", "n", "b", "a", "l", "a", "n", "c", "e", "d", " ", "b", "r", "a", "c", "e",
        "s", " ", "i", "n", " ", "q", "u", "e", "r", "y">>
    [] piece = "Query validation failed: " ->
      <<"Q", "u", "e", "r", "y", " ", "v", "a", "l", "i", "d", "a", "t", "i", "o", "n",
        " ", "f", "a", "i", "l", "e", "d", ":", " ">>
    [] piece = "SPARQL error: " ->
      <<"S", "P", "A", "R", "Q", "L", " ", "e", "r", "r", "o", "r", ":", " ">>
    [] piece = "Unexpected error: " ->
      <<"U", "n", "e", "x", "p", "e", "c", "t", "e", "d", " ", "e", "r", "r", "o", "r",
        ":", " ">>
    [] piece = "QueryBadFormed" ->
      <<"Q", "u", "e", "r", "y", "B", "a", "d", "F", "o", "r", "m", "e", "d">>
    [] piece = "EndPointNotFound" ->
      <<"E", "n", "d", "P", "o", "i", "n", "t", "N", "o", "t", "F", "o", "u", "n", "d">>
    [] piece = "URLError" ->
      <<"U", "R", "L", "E", "r", "r", "o", "r">>
    [] piece = "timed out" ->
      <<"t", "i", "m", "e", "d", " ", "o", "u", "t">>
    [] piece = "argument of type 'NoneType' is not iterable" ->
      <<"a", "r", "g", "u", "m", "e", "n", "t", " ", "o", "f", " ", "t", "y", "p", "e",
        " ", "'", "N", "o", "n", "e", "T", "y", "p", "e", "'", " ", "i", "s", " ", "n",
        "o", "t", " ", "i", "t", "e", "r", "a", "b", "l", "e">>

\* the text of an error message: its pieces, spelled and concatenated
MessageText(pieces) == Flatten([i \in 1..Len(pieces) |-> Spell(pieces[i])])

bad_request_terms == {<<"s", "y", "n", "t", "a", "x">>, <<"v", "a", "l", "i", "d", "a", "t", "i", "o", "n">>, <<"m", "a", "l", "f", "o", "r", "m", "e", "d">>,
                      <<"e", "m", "p", "t", "y">>, <<"d", "a", "n", "g", "e", "r", "o", "u", "s">>}
timeout_term == <<"t", "i", "m", "e", "o", "u", "t">>
unavailable_terms == {<<"c", "o", "n", "n", "e", "c", "t", "i", "o", "n">>, <<"e", "n", "d", "p", "o", "i", "n", "t">>}

\* _get_error_status_code
get_error_status_code(error_message) ==
  IF error_message = None \/ error_message[1] = <<>> THEN 500
  ELSE
    LET error_lower == Lower(MessageText(error_message[1]))
    IN IF \E term \in bad_request_terms : Contains(error_lower, term) THEN 400
       ELSE IF Contains(error_lower, timeout_term) THEN 408
       ELSE IF \E term \in unavailable_terms : Contains(error_lower, term) THEN 503
       ELSE 500

\* the "query" field of the request body
RouteBodies ==
  {<<>>,
   <<" ">> \o F_SELECT \o F_VAR \o <<"\n">>,
   F_SELECT \o F_VAR \o <<" ", "{", "}">>,
   F_SELECT \o <<PAD, "x">>,
   F_DELETE \o F_VAR,
   F_VAR,
   F_SELECT \o <<"{">>,
   F_SELECT \o F_INJECT \o F_VAR,
   F_SELECT \o F_drop,
   F_SELECT \o F_UNION6 \o F_UNION5,
   F_SELECT \o <<"#">>,
   F_SELECT \o <<" ">> \o F_VAR,
   F_SELECT \o F_VAR \o <<" ", "#">> \o F_drop,
   F_SELECT \o F_VAR \o <<" ", "D", "R", NUL, "O", "P">>}

\* execute_custom_query of routes.py, lines 38-84: query = data.get('query', '').strip()
InitRoute ==
  /\ req = "custom"
  /\ query \in {Strip(body) : body \in RouteBodies}
  /\ validate = TRUE
  /\ format_results = None
  /\ max_retries = custom_max_retries
  /\ pc = "start"
  /\ InitLocals
  /\ IdleOther

\* execute_custom_query of routes.py, lines 86-111: the response and its status code
RouteRespond ==
  /\ pc = "done"
  /\ req = "custom"
  /\ http_status' = IF result[1].success THEN Some(200)
                    ELSE Some(get_error_status_code(result[1].error))
  /\ pc' = "responded"
  /\ UNCHANGED <<InputVars, format_results, validation_result, checks, ExecVars, result,
                 detected_type, HealthVars, TransformerVars, SingletonVars>>

NextRoute ==
  \/ ExecuteCustomValidate
  \/ ExecuteQueryWithValidation
  \/ \E results \in Responses : AttemptSuccess(results)
  \/ \E e \in QueryLevelErrors : AttemptQueryError(e)
  \/ \E e \in UnexpectedErrors : AttemptUnexpectedError(e)
  \/ AttemptNoneResponse
  \/ RetriesExhausted
  \/ \E fmt \in BOOLEAN : ExecuteCustomFinish(fmt)
  \/ RouteRespond

SpecRoute == InitRoute /\ [][NextRoute]_vars

\* ------------------------------------------------ health_monitoring_service.py
slow_response_ms == 5000
low_triples == 100
high_usage == 90

ConnectionStatus(is_connected, response_time, error) ==
  [is_connected |-> is_connected, endpoint_url |-> "fuseki_endpoint",
   response_time |-> response_time, error |-> error]

\* response times of the ASK query of check_fuseki_connection, in ms
ResponseTimes == {0, 100, slow_response_ms, slow_response_ms + 1}

\* SPARQLQueryService.check_fuseki_connection: what it can return
ConnectionOutcomes ==
  {ConnectionStatus(TRUE, Some(t), None) : t \in ResponseTimes}
    \cup {ConnectionStatus(FALSE, None, Some(e)) : e \in UnexpectedErrors}

\* digit characters and their values
DigitValue ==
  [c \in {"0", "1", "2", "3", "4", "5", "6", "7", "8", "9"} |->
     CASE c = "0" -> 0 [] c = "1" -> 1 [] c = "2" -> 2 [] c = "3" -> 3 [] c = "4" -> 4
       [] c = "5" -> 5 [] c = "6" -> 6 [] c = "7" -> 7 [] c = "8" -> 8 [] c = "9" -> 9]

RECURSIVE DecimalValue(_)
DecimalValue(text) ==
  IF text = <<>> THEN 0
  ELSE 10 * DecimalValue(SubSeq(text, 1, Len(text) - 1)) + DigitValue[text[Len(text)]]

\* int(text): None stands for the ValueError
IntOf(text) ==
  IF text # <<>> /\ \A i \in 1..Len(text) : text[i] \in DOMAIN DigitValue
  THEN Some(DecimalValue(text))
  ELSE None

CountResponse(text) ==
  [head |-> [vars |-> <<"count">>],
   results |-> [bindings |-> << [count |-> [type |-> "literal", value |-> text]] >>]]

CountTexts == {<<"0">>, <<"5">>, <<"1", "5", "0">>, <<"x">>}

\* what execute_query_with_validation(query, validate=False) can do for a count
\* query: raise, fail, or succeed with some response
CountResults ==
  {[kind |-> "raises"],
   [kind |-> "returns",
    result |-> QueryResult(FALSE, None, Some(<<"Unexpected error: ", "URLError">>),
                           Some(0), None, None)],
   [kind |-> "returns",
    result |-> QueryResult(TRUE, Some(SelectResponse), None, Some(0), None, Some(1))]}
    \cup {[kind |-> "returns",
           result |-> QueryResult(TRUE, Some(CountResponse(text)), None, Some(0), None,
                                  Some(1))] : text \in CountTexts}

\* _execute_count_query, given what the Executor did
execute_count_query(r) ==
  IF r.kind = "raises" THEN None
  ELSE
    LET res == r.result
    IN IF res.success /\ res.data # None /\ DOMAIN res.data[1] # {}
       THEN LET bindings == Get(Get(res.data[1], "results", <<>>), "bindings", <<>>)
            IN IF bindings # <<>> /\ "count" \in DOMAIN bindings[1]
               THEN IntOf(bindings[1].count.value)
               ELSE None
       ELSE None

OntologyValidationResult(is_valid, total, classes, properties, individuals, error) ==
  [is_valid |-> is_valid, total_triples |-> total, class_count |-> classes,
   property_count |-> properties, individual_count |-> individuals,
   error_message |-> error]

\* mutant of ontology_is_valid: one positive count is enough
ontology_is_valid_EitherCount(total_triples, class_count) ==
  \/ (total_triples # None /\ total_triples[1] > 0)
  \/ (class_count # None /\ class_count[1] > 0)

\* validate_ontology_data, lines 214-217
ontology_is_valid(total_triples, class_count) ==
  /\ total_triples # None /\ total_triples[1] > 0
  /\ class_count # None /\ class_count[1] > 0

\* mutant of overall_status_of: warnings are looked at first
overall_status_of_WarningsFirst(errs, warns) ==
  IF warns # <<>> THEN "degraded"
  ELSE IF errs # <<>> THEN "unhealthy"
  ELSE "healthy"

\* perform_health_check, lines 352-358
overall_status_of(errs, warns) ==
  IF errs # <<>> THEN "unhealthy"
  ELSE IF warns # <<>> THEN "degraded"
  ELSE "healthy"

\* psutil readings, in percent
SystemLoads ==
  {[cpu_usage |-> c, memory_usage |-> m, disk_usage |-> d] :
     c \in {10, high_usage + 1}, m \in {10, high_usage + 1}, d \in {high_usage}}
    \cup {[cpu_usage |-> 10, memory_usage |-> 10, disk_usage |-> high_usage + 1]}

\* no request to the SPARQL services is in progress
IdleRequest ==
  /\ query = <<>>
  /\ validate = FALSE
  /\ format_results = None
  /\ max_retries = default_max_retries
  /\ InitLocals

RequestVars == <<query, validate, format_results, max_retries, validation_result, checks,
                 ExecVars, result>>

\* GET /health (perform_health_check) and GET /health/ontology (validate_ontology_data)
InitHealth ==
  /\ req \in {"health_check", "validate_ontology"}
  /\ pc = IF req = "health_check" THEN "start" ELSE "count"
  /\ IdleRequest
  /\ IdleValidator /\ IdleRoute /\ IdleHealth /\ IdleTransformer /\ IdleSingleton

\* perform_health_check, lines 326-334
CheckFusekiConnection(status) ==
  /\ pc = "start"
  /\ req = "health_check"
  /\ fuseki_connection' = Some(status)
  /\ errors' = IF ~status.is_connected
               THEN <<[text |-> "Fuseki connection failed: ", arg |-> status.error]>>
               ELSE <<>>
  /\ warnings' = IF /\ status.is_connected
                    /\ status.response_time # None
                    /\ status.response_time[1] # 0
                    /\ status.response_time[1] > slow_response_ms
                 THEN <<[text |-> "Fuseki response time is slow: ",
                         arg |-> status.response_time]>>
                 ELSE <<>>
  /\ pc' = "count"
  /\ UNCHANGED <<req, RequestVars, detected_type, http_status, TransformerVars,
                 SingletonVars,
                 count_results, counts,
                 ontology_validation, system_metrics, health_status>>

\* validate_ontology_data, lines 206-209: the next of the four count queries
ExecuteCountQuery(r) ==
  /\ pc = "count"
  /\ Len(counts) < 4
  /\ count_results' = Append(count_results, r)
  /\ counts' = Append(counts, execute_count_query(r))
  /\ UNCHANGED <<req, pc, RequestVars, detected_type, http_status, TransformerVars,
                 SingletonVars,
                 fuseki_connection,
                 ontology_validation, system_metrics, errors, warnings, health_status>>

\* validate_ontology_data, lines 211-231, and perform_health_check, lines 337-341
ValidateOntologyData ==
  /\ pc = "count"
  /\ Len(counts) = 4
  /\ LET ontology == OntologyValidationResult(ontology_is_valid(counts[1], counts[2]),
                       counts[1], counts[2], counts[3], counts[4], None)
     IN /\ ontology_validation' = Some(ontology)
        /\ IF req = "validate_ontology"
           THEN /\ pc' = "done"
                /\ UNCHANGED <<errors, warnings>>
           ELSE /\ pc' = "metrics"
                /\ errors' = IF ~ontology.is_valid
                             THEN Append(errors, [text |-> "Ontology validation failed: ",
                                                  arg |-> ontology.error_message])
                             ELSE errors
                /\ warnings' = IF /\ ontology.is_valid
                                  /\ ontology.total_triples # None
                                  /\ ontology.total_triples[1] # 0
                                  /\ ontology.total_triples[1] < low_triples
                               THEN Append(warnings,
                                           [text |-> "Low number of triples in ontology: ",
                                            arg |-> ontology.total_triples])
                               ELSE warnings
  /\ UNCHANGED <<req, RequestVars, detected_type, http_status, TransformerVars,
                 SingletonVars,
                 fuseki_connection,
                 count_results, counts, system_metrics, health_status>>

\* perform_health_check, lines 343-373
GetSystemMetrics(metrics) ==
  /\ pc = "metrics"
  /\ system_metrics' = Some(metrics)
  /\ LET w1 == IF metrics.cpu_usage > high_usage
               THEN <<[text |-> "High CPU usage: ", arg |-> Some(metrics.cpu_usage)]>>
               ELSE <<>>
         w2 == IF metrics.memory_usage > high_usage
               THEN <<[text |-> "High memory usage: ", arg |-> Some(metrics.memory_usage)]>>
               ELSE <<>>
         w3 == IF metrics.disk_usage > high_usage
               THEN <<[text |-> "High disk usage: ", arg |-> Some(metrics.disk_usage)]>>
               ELSE <<>>
     IN /\ warnings' = warnings \o w1 \o w2 \o w3
        /\ health_status' = Some([overall_status |-> overall_status_of(errors, warnings'),
                                  fuseki_connection |-> fuseki_connection[1],
                                  ontology_validation |-> ontology_validation[1],
                                  system_metrics |-> metrics,
                                  errors |-> errors,
                                  warnings |-> warnings'])
  /\ pc' = "done"
  /\ UNCHANGED <<req, RequestVars, detected_type, http_status, TransformerVars,
                 SingletonVars,
                 fuseki_connection,
                 count_results, counts, ontology_validation, errors>>

NextHealth ==
  \/ \E status \in ConnectionOutcomes : CheckFusekiConnection(status)
  \/ \E r \in CountResults : ExecuteCountQuery(r)
  \/ ValidateOntologyData
  \/ \E metrics \in SystemLoads : GetSystemMetrics(metrics)

SpecHealth == InitHealth /\ [][NextHealth]_vars

\* ------------------------------------------------------ ai_sparql_transformer.py
\* upper-case, lower-case and cased characters of str.istitle()
IsUpperChar(c) == c \in DOMAIN LowerTable
IsLowerChar(c) == c \in DOMAIN UpperTable \/ c = "é"
IsCased(c) == IsUpperChar(c) \/ IsLowerChar(c)

\* word.istitle()
IsTitle(word) ==
  /\ \E i \in 1..Len(word) : IsCased(word[i])
  /\ \A i \in 1..Len(word) :
       /\ IsUpperChar(word[i]) => (i = 1 \/ ~IsCased(word[i - 1]))
       /\ IsLowerChar(word[i]) => (i > 1 /\ IsCased(word[i - 1]))

\* s.capitalize()
Capitalize(s) == [i \in 1..Len(s) |-> IF i = 1 THEN UpperChar(s[i]) ELSE LowerChar(s[i])]

\* question.split(): where the words start, and the word starting at i
WordStarts(s) ==
  {i \in 1..Len(s) : s[i] \notin Whitespace /\ (i = 1 \/ s[i - 1] \in Whitespace)}

WordAt(s, i) ==
  SubSeq(s, i, CHOOSE e \in i..Len(s) :
                 /\ \A k \in i..e : s[k] \notin Whitespace
                 /\ (e = Len(s) \/ s[e + 1] \in Whitespace))

\* patterns['all_persons']['patterns']
all_persons_listing == {<<"t", "o", "u", "s">>, <<"t", "o", "u", "t">>,
                        <<"l", "i", "s", "t", "e">>, <<"a", "f", "f", "i", "c", "h", "e">>}
all_persons_listed == {<<"p", "e", "r", "s", "o", "n", "n", "e">>, <<"g", "e", "n", "s">>,
                       <<"u", "t", "i", "l", "i", "s", "a", "t", "e", "u", "r">>}
all_persons_showing == {<<"m", "o", "n", "t", "r", "e">>, <<"d", "o", "n", "n", "e">>}
all_persons_shown == {<<"p", "e", "r", "s", "o", "n", "n", "e">>, <<"g", "e", "n", "s">>}
T_qui == <<"q", "u", "i">>

\* patterns['search_by_name']['patterns']
search_verbs == {<<"t", "r", "o", "u", "v", "e">>, <<"c", "h", "e", "r", "c", "h", "e">>,
                 <<"r", "e", "c", "h", "e", "r", "c", "h", "e">>}
search_phrases == {<<"q", "u", "i", " ", "e", "s", "t">>,
                   <<"q", "u", "i", " ", "s", "'", "a", "p", "p", "e", "l", "l", "e">>}
search_showing == {<<"d", "o", "n", "n", "e">>, <<"m", "o", "n", "t", "r", "e">>}
search_shown == {<<"i", "n", "f", "o", "r", "m", "a", "t", "i", "o", "n">>,
                 <<"d", "é", "t", "a", "i", "l">>}

\* patterns['by_person_type']['patterns']
person_type_terms ==
  {<<"c", "i", "t", "o", "y", "e", "n">>, <<"c", "i", "t", "o", "y", "e", "n", "s">>,
   <<"h", "a", "b", "i", "t", "a", "n", "t">>, <<"s", "t", "a", "f", "f">>,
   <<"e", "m", "p", "l", "o", "y", "é">>, <<"e", "m", "p", "l", "o", "y", "é", "s">>,
   <<"t", "o", "u", "r", "i", "s", "t", "e">>,
   <<"t", "o", "u", "r", "i", "s", "t", "e", "s">>,
   <<"v", "i", "s", "i", "t", "e", "u", "r">>}

\* re.search(r'.*(a|..).*(b|..)', s): some a, then some b further on the same line
MatchesThen(s, firsts, seconds) ==
  \E a \in firsts :
    \E i \in 1..Len(s) :
      /\ MatchAt(s, i, a)
      /\ \E b \in seconds :
           \E j \in (i + Len(a))..Len(s) :
             /\ MatchAt(s, j, b)
             /\ \A k \in (i + Len(a))..(j - 1) : s[k] # "\n"

\* re.search(r'.*(a|..)', s) and re.search(r'.*(a|..).*', s)
MatchesAny(s, terms) == \E a \in terms : Contains(s, a)

\* re.search(r'^qui.*$', s): '.' matches no line break, '$' matches at the end
\* of s or before a line break that ends s
MatchesQuiLine(s) ==
  /\ MatchAt(s, 1, T_qui)
  /\ \A k \in (Len(T_qui) + 1)..Len(s) : s[k] = "\n" => k = Len(s)

\* any(re.search(pattern, s) for pattern in patterns[q_type]['patterns'])
MatchesGroup(q_type, s) ==
  CASE q_type = "all_persons" ->
         \/ MatchesThen(s, all_persons_listing, all_persons_listed)
         \/ MatchesThen(s, all_persons_showing, all_persons_shown)
         \/ MatchesQuiLine(s)
    [] q_type = "search_by_name" ->
         \/ MatchesAny(s, search_verbs)
         \/ MatchesAny(s, search_phrases)
         \/ MatchesThen(s, search_showing, search_shown)
    [] q_type = "by_person_type" -> MatchesAny(s, person_type_terms)

\* mutant of pattern_groups: all_persons is tested last
pattern_groups_AllPersonsLast == <<"search_by_name", "by_person_type", "all_persons">>

\* self.patterns: the groups in the order of the dict
pattern_groups == <<"all_persons", "search_by_name", "by_person_type">>

\* classify_question: the first group, in the order of pattern_groups, one of
\* whose patterns the lower-cased question matches
classify_question(q) ==
  IF MatchesGroup(pattern_groups[1], Lower(q)) THEN pattern_groups[1]
  ELSE IF MatchesGroup(pattern_groups[2], Lower(q)) THEN pattern_groups[2]
  ELSE IF MatchesGroup(pattern_groups[3], Lower(q)) THEN pattern_groups[3]
  ELSE "all_persons"

\* extract_name, line 89
interrogatives == {<<"q", "u", "i">>, <<"q", "u", "e", "l">>, <<"q", "u", "e", "l", "l", "e">>,
                   <<"q", "u", "e", "l", "s">>, <<"q", "u", "e", "l", "l", "e", "s">>}

IsProperNoun(word) ==
  IsTitle(word) /\ Len(word) > 2 /\ Lower(word) \notin interrogatives

\* self.common_names
common_names ==
  <<<<"a", "l", "i", "c", "e">>, <<"b", "o", "b">>, <<"c", "h", "a", "r", "l", "i", "e">>,
   <<"d", "a", "v", "i", "d">>, <<"e", "v", "e">>, <<"f", "r", "a", "n", "k">>,
   <<"g", "r", "a", "c", "e">>>>

\* extract_name, lines 98-103: the phrases a name is looked for after
name_phrases ==
  <<<<"q", "u", "i", " ", "e", "s", "t", " ">>,
   <<"q", "u", "i", " ", "s", "'", "a", "p", "p", "e", "l", "l", "e", " ">>,
   <<"t", "r", "o", "u", "v", "e", " ">>, <<"c", "h", "e", "r", "c", "h", "e", " ">>>>

\* where the group of r'phrase (.+?)(?:\?|$|\.)' can end when it starts at p
CaptureEnds(s, p) ==
  {e \in p..Len(s) :
     /\ \A k \in p..e : s[k] # "\n"
     /\ \/ e = Len(s)
        \/ s[e + 1] \in {"?", "."}
        \/ (e + 1 = Len(s) /\ s[e + 1] = "\n")}

\* re.search(r'phrase (.+?)(?:\?|$|\.)', s).group(1), None without a match
PhraseCapture(s, phrase) ==
  LET starts == {i \in 1..Len(s) :
                   MatchAt(s, i, phrase) /\ CaptureEnds(s, i + Len(phrase)) # {}}
  IN IF starts = {} THEN None
     ELSE LET i == CHOOSE x \in starts : \A y \in starts : x <= y
              p == i + Len(phrase)
              ends == CaptureEnds(s, p)
          IN Some(SubSeq(s, p, CHOOSE e \in ends : \A f \in ends : e <= f))

\* extract_name
extract_name(q) ==
  LET question_lower == Lower(q)
      proper == {i \in WordStarts(q) : IsProperNoun(WordAt(q, i))}
      known == {n \in 1..Len(common_names) : Contains(question_lower, common_names[n])}
      phrased == {n \in 1..Len(name_phrases) :
                    PhraseCapture(question_lower, name_phrases[n]) # None}
  IN IF proper # {} THEN WordAt(q, CHOOSE i \in proper : \A j \in proper : i <= j)
     ELSE IF known # {}
     THEN Capitalize(common_names[CHOOSE n \in known : \A m \in known : n <= m])
     ELSE IF phrased # {}
     THEN LET n == CHOOSE x \in phrased : \A y \in phrased : x <= y
          IN Capitalize(Strip(PhraseCapture(question_lower, name_phrases[n])[1]))
     ELSE <<>>

\* self.type_mapping, in the order of the dict
type_mapping ==
  <<[fr_type |-> <<"c", "i", "t", "o", "y", "e", "n">>, en_type |-> <<"C", "i", "t", "i", "z", "e", "n">>],
    [fr_type |-> <<"c", "i", "t", "o", "y", "e", "n", "s">>, en_type |-> <<"C", "i", "t", "i", "z", "e", "n">>],
    [fr_type |-> <<"h", "a", "b", "i", "t", "a", "n", "t">>, en_type |-> <<"C", "i", "t", "i", "z", "e", "n">>],
    [fr_type |-> <<"s", "t", "a", "f", "f">>, en_type |-> <<"S", "t", "a", "f", "f">>],
    [fr_type |-> <<"e", "m", "p", "l", "o", "y", "é">>, en_type |-> <<"S", "t", "a", "f", "f">>],
    [fr_type |-> <<"e", "m", "p", "l", "o", "y", "é", "s">>, en_type |-> <<"S", "t", "a", "f", "f">>],
    [fr_type |-> <<"t", "o", "u", "r", "i", "s", "t", "e">>, en_type |-> <<"T", "o", "u", "r", "i", "s", "t">>],
    [fr_type |-> <<"t", "o", "u", "r", "i", "s", "t", "e", "s">>, en_type |-> <<"T", "o", "u", "r", "i", "s", "t">>],
    [fr_type |-> <<"v", "i", "s", "i", "t", "e", "u", "r">>, en_type |-> <<"T", "o", "u", "r", "i", "s", "t">>]>>

\* extract_person_type
extract_person_type(q) ==
  LET question_lower == Lower(q)
      found == {n \in 1..Len(type_mapping) : Contains(question_lower, type_mapping[n].fr_type)}
  IN IF found = {} THEN <<>>
     ELSE type_mapping[CHOOSE n \in found : \A m \in found : n <= m].en_type

\* the templates: the braces and the replacement field names are characters of
\* their own, the text between them is kept in one piece
T_PROLOGUE == "PREFIX : <...#> PREFIX rdf: <...#> SELECT ?person ?name ?type WHERE "
T_TYPE_FILTER == " ?person rdf:type ?type . FILTER(?type != :Person) "

all_persons_template ==
  <<T_PROLOGUE, "{", " ?person rdf:type :Person . OPTIONAL ", "{",
    " ?person :hasName ?name . ", "}", " OPTIONAL ", "{", T_TYPE_FILTER, "}", "}">>

search_by_name_template ==
  <<T_PROLOGUE, "{", " ?person rdf:type :Person . ?person :hasName ?name . FILTER regex(?name, ",
    "{", "name", "}", ", i) OPTIONAL ", "{", T_TYPE_FILTER, "}", "}">>

by_person_type_template ==
  <<T_PROLOGUE, "{", " ?person rdf:type :Person . ?person :hasName ?name . ?person rdf:type :",
    "{", "person_type", "}", " . OPTIONAL ", "{",
    " ?person rdf:type ?other_type . FILTER(?other_type != :Person && ?other_type != :",
    "{", "person_type", "}", ") ", "}", "}">>

\* what a call ends in
Returns(text) == [kind |-> "returns", text |-> text]
Raises(error) == [kind |-> "raises", error |-> error]

\* template.format(key=value): a '{' opens a replacement field that runs to its
\* matching '}', the field's name is looked up among the keyword arguments; a
\* '}' outside a field is an error. The templates hold no doubled brace.
IsField(template, i, key) ==
  /\ template[i] = "{"
  /\ i + 2 <= Len(template)
  /\ template[i + 1] = key
  /\ template[i + 2] = "}"

Closes(template, i, e) ==
  Cardinality({k \in i..e : template[k] = "{"}) = Cardinality({k \in i..e : template[k] = "}"})

Format(template, key, value) ==
  LET fields == {i \in 1..Len(template) : IsField(template, i, key)}
      stray == {i \in 1..Len(template) :
                  /\ template[i] \in {"{", "}"}
                  /\ \A f \in fields : i \notin {f, f + 2}}
  IN IF stray = {}
     THEN Returns(Flatten([i \in 1..Len(template) |->
                             IF i \in fields THEN value
                             ELSE IF \E f \in fields : i \in {f + 1, f + 2} THEN <<>>
                             ELSE <<template[i]>>]))
     ELSE LET i == CHOOSE x \in stray : \A y \in stray : x <= y
          IN IF template[i] = "{" /\ \E e \in i..Len(template) : Closes(template, i, e)
             THEN Raises("KeyError")
             ELSE Raises("ValueError")

\* generate_sparql, lines 137-153: what is returned for a question of type
\* q_type from which found was extracted
generate_from(q_type, found) ==
  IF q_type = "search_by_name"
  THEN IF found # <<>>
       THEN Format(search_by_name_template, "name", found)
       ELSE Returns(all_persons_template)
  ELSE IF q_type = "by_person_type"
  THEN IF found # <<>>
       THEN Format(by_person_type_template, "person_type", found)
       ELSE Returns(all_persons_template)
  ELSE Returns(all_persons_template)

\* generate_sparql, lines 138 and 146: the name or the person type extracted,
\* None for a question of type all_persons
extract_for(q_type, q) ==
  IF q_type = "search_by_name" THEN Some(extract_name(q))
  ELSE IF q_type = "by_person_type" THEN Some(extract_person_type(q))
  ELSE None

\* the questions asked: up to MaxQuestionFrags of these, one after the other
MaxQuestionFrags == 3
MaxCalls == 2

QuestionFrags ==
  {<<"Q", "u", "i", " ">>, <<"Q", "u", "i", "\n">>, <<"e", "s", "t", " ">>,
   <<"T", "r", "o", "u", "v", "e", " ">>, <<"t", "r", "o", "u", "v", "e", " ">>,
   <<"Z", "z", "y", "z", "x">>, <<"a", "l", "i", "c", "e">>, <<"B", "o", "b", " ", "?">>,
   <<"c", "i", "t", "o", "y", "e", "n", "s">>,
   <<"p", "e", "r", "s", "o", "n", "n", "e", "s">>, <<"l", "i", "s", "t", "e", " ">>}

Questions ==
  {Flatten(fs) : fs \in UNION {[1..n -> QuestionFrags] : n \in 0..MaxQuestionFrags}}

InitTransform ==
  /\ req = "generate_sparql"
  /\ pc = "start"
  /\ IdleRequest
  /\ IdleValidator /\ IdleRoute /\ IdleHealth /\ IdleSingleton
  /\ question \in Questions
  /\ question_type = None
  /\ extracted = None
  /\ generated = <<>>

NonTransformerVars ==
  <<req, RequestVars, detected_type, http_status, HealthVars, SingletonVars>>

\* one call of generate_sparql(question)
GenerateSparql ==
  /\ Len(generated) < MaxCalls
  /\ \E q_type \in {classify_question(question)} :
       \E found \in {extract_for(q_type, question)} :
         /\ question_type' = Some(q_type)
         /\ extracted' = found
         /\ generated' = Append(generated,
                                generate_from(q_type, IF found = None THEN <<>> ELSE found[1]))
  /\ pc' = "generated"
  /\ UNCHANGED <<question, NonTransformerVars>>

NextTransform == GenerateSparql

SpecTransform == InitTransform /\ [][NextTransform]_vars

\* ------------------------------- get_sparql_service, get_health_monitoring_service
MaxServiceCalls == 4

\* FUSEKI_ENDPOINT of the routes, and another endpoint
Endpoints == {"http://localhost:3030/smartcity/query", "http://localhost:3030/other/query"}

NonSingletonVars == <<req, pc, RequestVars, detected_type, http_status, HealthVars,
                      TransformerVars>>

InitSingleton ==
  /\ req = "get_service"
  /\ pc = "start"
  /\ IdleRequest
  /\ IdleValidator /\ IdleRoute /\ IdleHealth /\ IdleTransformer
  /\ IdleSingleton

\* calls started so far
Started == Len(calls) + Cardinality({t \in Threads : threads[t].pc # "idle"})

\* thread t at position p, with the locals given
At(t, p, endpoint, fresh, sparql_service) ==
  [threads EXCEPT ![t] = [pc |-> p, endpoint |-> endpoint, fresh |-> fresh,
                          sparql_service |-> sparql_service]]

\* thread t goes to position p
Goto(t, p) == [threads EXCEPT ![t].pc = p]

\* a request thread calls get_sparql_service(endpoint)
CallGetSparqlService(t, endpoint) ==
  /\ threads[t].pc = "idle"
  /\ Started < MaxServiceCalls
  /\ threads' = At(t, "test_none", Some(endpoint), None, threads[t].sparql_service)
  /\ UNCHANGED <<default_service, health_service, services, monitors, calls,
                 NonSingletonVars>>

\* get_sparql_service, line 452: "_default_service is None"
TestDefaultServiceNone(t) ==
  /\ threads[t].pc = "test_none"
  /\ threads' = Goto(t, IF default_service = None THEN "construct" ELSE "test_endpoint")
  /\ UNCHANGED <<default_service, health_service, services, monitors, calls,
                 NonSingletonVars>>

\* get_sparql_service, line 452: "_default_service.fuseki_endpoint != endpoint"
TestDefaultServiceEndpoint(t) ==
  /\ threads[t].pc = "test_endpoint"
  /\ threads' = Goto(t, IF services[default_service[1]] # threads[t].endpoint[1]
                        THEN "construct" ELSE "return")
  /\ UNCHANGED <<default_service, health_service, services, monitors, calls,
                 NonSingletonVars>>

\* get_sparql_service, line 453: SPARQLQueryService(fuseki_endpoint=endpoint)
ConstructSparqlService(t) ==
  /\ threads[t].pc = "construct"
  /\ services' = Append(services, threads[t].endpoint[1])
  /\ threads' = At(t, "assign", threads[t].endpoint, Some(Len(services) + 1),
                   threads[t].sparql_service)
  /\ UNCHANGED <<default_service, health_service, monitors, calls, NonSingletonVars>>

\* get_sparql_service, line 453: "_default_service = ..."
AssignDefaultService(t) ==
  /\ threads[t].pc = "assign"
  /\ default_service' = threads[t].fresh
  /\ threads' = At(t, "return", threads[t].endpoint, None, threads[t].sparql_service)
  /\ UNCHANGED <<health_service, services, monitors, calls, NonSingletonVars>>

\* get_sparql_service, line 455: "return _default_service"
ReturnDefaultService(t) ==
  /\ threads[t].pc = "return"
  /\ calls' = Append(calls, [thread |-> t, accessor |-> "get_sparql_service",
                             endpoint |-> threads[t].endpoint,
                             instance |-> default_service[1]])
  /\ threads' = At(t, "idle", None, None, default_service)
  /\ UNCHANGED <<default_service, health_service, services, monitors, NonSingletonVars>>

\* a request thread calls get_health_monitoring_service(sparql_service) with the
\* service it got from get_sparql_service (routes.py, lines 40-43)
CallGetHealthMonitoringService(t) ==
  /\ threads[t].pc = "idle"
  /\ threads[t].sparql_service # None
  /\ Started < MaxServiceCalls
  /\ threads' = Goto(t, "health_test_none")
  /\ UNCHANGED <<default_service, health_service, services, monitors, calls,
                 NonSingletonVars>>

\* get_health_monitoring_service, line 390: "_health_service is None"
TestHealthServiceNone(t) ==
  /\ threads[t].pc = "health_test_none"
  /\ threads' = Goto(t, IF health_service = None THEN "health_construct"
                        ELSE "health_return")
  /\ UNCHANGED <<default_service, health_service, services, monitors, calls,
                 NonSingletonVars>>

\* get_health_monitoring_service, line 391: HealthMonitoringService(sparql_service)
ConstructHealthService(t) ==
  /\ threads[t].pc = "health_construct"
  /\ monitors' = Append(monitors, threads[t].sparql_service[1])
  /\ threads' = At(t, "health_assign", None, Some(Len(monitors) + 1),
                   threads[t].sparql_service)
  /\ UNCHANGED <<default_service, health_service, services, calls, NonSingletonVars>>

\* get_health_monitoring_service, line 391: "_health_service = ..."
AssignHealthService(t) ==
  /\ threads[t].pc = "health_assign"
  /\ health_service' = threads[t].fresh
  /\ threads' = At(t, "health_return", None, None, threads[t].sparql_service)
  /\ UNCHANGED <<default_service, services, monitors, calls, NonSingletonVars>>

\* get_health_monitoring_service, line 393: "return _health_service"
ReturnHealthService(t) ==
  /\ threads[t].pc = "health_return"
  /\ calls' = Append(calls, [thread |-> t, accessor |-> "get_health_monitoring_service",
                             endpoint |-> None,
                             instance |-> health_service[1]])
  /\ threads' = Goto(t, "idle")
  /\ UNCHANGED <<default_service, health_service, services, monitors, NonSingletonVars>>

NextSingleton ==
  \E t \in Threads :
    \/ \E endpoint \in Endpoints : CallGetSparqlService(t, endpoint)
    \/ TestDefaultServiceNone(t)
    \/ TestDefaultServiceEndpoint(t)
    \/ ConstructSparqlService(t)
    \/ AssignDefaultService(t)
    \/ ReturnDefaultService(t)
    \/ CallGetHealthMonitoringService(t)
    \/ TestHealthServiceNone(t)
    \/ ConstructHealthService(t)
    \/ AssignHealthService(t)
    \/ ReturnHealthService(t)

SpecSingleton == InitSingleton /\ [][NextSingleton]_vars

\* ------------------------------------------------- app.py: POST /api/ai/query
Indent(n) == [i \in 1..n |-> " "]

\* self.patterns['all_persons']['template'], character by character
all_persons_text ==
  <<"\n">>
  \o (Indent(16) \o <<"P", "R", "E", "F", "I", "X", " ", ":", " ", "<", "h", "t", "t", "p", ":", "/",
         "/", "w", "w", "w", ".", "s", "e", "m", "a", "n", "t", "i", "c", "w", "e", "b",
         ".", "o", "r", "g", "/", "m", "o", "n", "p", "c", "/", "o", "n", "t", "o", "l",
         "o", "g", "i", "e", "s", "/", "2", "0", "2", "5", "/", "9", "/", "u", "n", "t",
         "i", "t", "l", "e", "d", "-", "o", "n", "t", "o", "l", "o", "g", "y", "-", "4",
         "#", ">">> \o <<"\n">>)
  \o (Indent(16) \o <<"P", "R", "E", "F", "I", "X", " ", "r", "d", "f", ":", " ", "<", "h", "t", "t",
         "p", ":", "/", "/", "w", "w", "w", ".", "w", "3", ".", "o", "r", "g", "/", "1",
         "9", "9", "9", "/", "0", "2", "/", "2", "2", "-", "r", "d", "f", "-", "s", "y",
         "n", "t", "a", "x", "-", "n", "s", "#", ">">> \o <<"\n">>)
  \o (Indent(16) \o <<"\n">>)
  \o (Indent(16) \o <<"S", "E", "L", "E", "C", "T", " ", "?", "p", "e", "r", "s", "o", "n", " ", "?",
         "n", "a", "m", "e", " ", "?", "t", "y", "p", "e", " ", "W", "H", "E", "R", "E",
         " ", "{">> \o <<"\n">>)
  \o (Indent(20) \o <<"?", "p", "e", "r", "s", "o", "n", " ", "r", "d", "f", ":", "t", "y", "p", "e",
         " ", ":", "P", "e", "r", "s", "o", "n", " ", ".">> \o <<"\n">>)
  \o (Indent(20) \o <<"O", "P", "T", "I", "O", "N", "A", "L", " ", "{", " ", "?", "p", "e", "r", "s",
         "o", "n", " ", ":", "h", "a", "s", "N", "a", "m", "e", " ", "?", "n", "a", "m",
         "e", " ", ".", " ", "}">> \o <<"\n">>)
  \o (Indent(20) \o <<"O", "P", "T", "I", "O", "N", "A", "L", " ", "{">> \o <<"\n">>)
  \o (Indent(24) \o <<"?", "p", "e", "r", "s", "o", "n", " ", "r", "d", "f", ":", "t", "y", "p", "e",
         " ", "?", "t", "y", "p", "e", " ", ".">> \o <<"\n">>)
  \o (Indent(24) \o <<"F", "I", "L", "T", "E", "R", "(", "?", "t", "y", "p", "e", " ", "!", "=", " ",
         ":", "P", "e", "r", "s", "o", "n", ")">> \o <<"\n">>)
  \o (Indent(20) \o <<"}">> \o <<"\n">>)
  \o (Indent(16) \o <<"}">> \o <<"\n">>)
  \o Indent(16)

\* the characters of a text generate_sparql returns; str.format raises on both
\* templates that have replacement fields, so no other text is ever returned
TextOf(text) == CASE text = all_persons_template -> all_persons_text

MaxAiFrags == 2

\* the questions posted: up to MaxAiFrags of QuestionFrags, one after the other
AiQuestions ==
  {Flatten(fs) : fs \in UNION {[1..n -> QuestionFrags] : n \in 0..MaxAiFrags}}

\* a request to POST /api/ai/query; sparql_service of app.py has max_retries=3
InitAi ==
  /\ req = "ai_query"
  /\ IdleRequest
  /\ pc = "start"
  /\ IdleValidator /\ IdleRoute /\ IdleHealth /\ IdleSingleton
  /\ question \in AiQuestions
  /\ question_type = None
  /\ extracted = None
  /\ generated = <<>>

\* ai_query, lines 240-248 and 276-277: the question is read and the query generated
AiGenerateSparql ==
  /\ req = "ai_query"
  /\ pc = "start"
  /\ IF question = <<>>
     THEN /\ http_status' = Some(400)
          /\ pc' = "done"
          /\ UNCHANGED <<query, TransformerVars>>
     ELSE \E q_type \in {classify_question(question)} :
            \E found \in {extract_for(q_type, question)} :
              \E g \in {generate_from(q_type, IF found = None THEN <<>> ELSE found[1])} :
                /\ question_type' = Some(q_type)
                /\ extracted' = found
                /\ generated' = <<g>>
                /\ question' = question
                /\ IF g.kind = "raises"
                   THEN /\ http_status' = Some(500)
                        /\ pc' = "done"
                        /\ query' = query
                   ELSE /\ http_status' = http_status
                        /\ pc' = "exec_entry"
                        /\ query' = TextOf(g.text)
  /\ validate' = TRUE
  /\ UNCHANGED <<req, format_results, max_retries, validation_result, checks, ExecVars,
                 result, detected_type, HealthVars, SingletonVars>>

\* the bindings of a response all have the person variable
HasPersons(data) ==
  /\ "results" \in DOMAIN data
  /\ "bindings" \in DOMAIN data.results
  /\ \A i \in 1..Len(data.results.bindings) : "person" \in DOMAIN data.results.bindings[i]

\* ai_query, lines 251-277: the Executor has returned, the response is sent
AiRespond ==
  /\ req = "ai_query"
  /\ pc = "exec_return"
  /\ result' = qresult
  /\ http_status' = IF qresult[1].success /\ HasPersons(qresult[1].data[1])
                    THEN Some(200) ELSE Some(500)
  /\ pc' = "done"
  /\ UNCHANGED <<InputVars, format_results, validation_result, checks, ExecVars,
                 detected_type, HealthVars, TransformerVars, SingletonVars>>

\* the callers of the Executor, POST /api/ai/query among them
InitApp == Init \/ InitAi

NextApp ==
  \/ Next
  \/ AiGenerateSparql
  \/ AiRespond

SpecApp == InitApp /\ [][NextApp]_vars

\* ================================================================ claims
Finished == pc = "done"
ExecReturned == pc \in {"exec_return", "done"} /\ qresult # None

\* the validation_error category of a CustomQueryResult, "none" when it has none
Category(r) ==
  IF r.metadata # None /\ "validation_error" \in DOMAIN r.metadata[1]
  THEN r.metadata[1].validation_error
  ELSE "none"

PolicyRejected == validation_result # None /\ ~validation_result[1].success

ExecValidationRejected ==
  /\ qresult # None
  /\ qresult[1].error # None
  /\ Head(qresult[1].error[1]) = "Query validation failed: "

\* the sleeps of k failed attempts: 0.5 * i seconds after failed attempt i
LinearBackoff(k) == [i \in 1..k |-> backoff_ms * i]

RECURSIVE SumSeq(_)
SumSeq(seq) == IF seq = <<>> THEN 0 ELSE Head(seq) + SumSeq(Tail(seq))

\* C1: whenever executeCustom rejects a query with a validation-category error (by the
\* policy checks, or by the Executor's own Validator), no call was made to the store
\* during the request, nothing was retried (no attempt, no backoff sleep), and the
\* request ends with that rejection.
C1_ValidationRejectsBeforeStore ==
  (req = "custom" /\ (PolicyRejected \/ ExecValidationRejected)) =>
    /\ sent = <<>>
    /\ outcomes = <<>>
    /\ sleeps = <<>>
    /\ attempt = 0
    /\ Finished => (~result[1].success /\ result[1].error # None)
    /\ (Finished /\ PolicyRejected) => result = validation_result

\* C1 witness: a SELECT query of 10,001 characters was rejected as too long.
C1_Witness ==
  /\ req = "custom" /\ Finished
  /\ Contains(query, F_SELECT)
  /\ TextLen(query) = max_query_length + 1
  /\ Category(result[1]) = "query_too_long"
  /\ sent = <<>>

\* C2: a non-empty query of at most 10,000 characters whose classified type is not
\* SELECT is answered by executeCustom with success=false, the error "Only SELECT
\* queries are allowed..." of category invalid_query_type, and is never sent to the
\* store: once executeCustom has acted, the request is over and no call was made.
C2_NonSelectRejected ==
  (/\ req = "custom"
   /\ pc # "start"
   /\ ~IsBlank(query)
   /\ TextLen(Strip(query)) <= max_query_length
   /\ detect_query_type(query) # "SELECT") =>
    /\ sent = <<>>
    /\ Finished
    /\ ~result[1].success
    /\ Head(result[1].error[1]) = "Only SELECT queries are allowed"
    /\ Category(result[1]) = "invalid_query_type"

\* C2 witness: "DELETE ?s" was rejected as not SELECT.
C2_Witness ==
  /\ req = "custom" /\ Finished
  /\ query = F_DELETE \o F_VAR
  /\ Category(result[1]) = "invalid_query_type"
  /\ result[1].metadata[1].detected_type = "DELETE"

\* the categories the policy's scan is to report, in the order of the policy
C3_Expected(q) ==
  LET u == Upper(q)
  IN (IF \E kw \in {W_INSERT, W_DELETE, W_DROP, W_CLEAR, W_LOAD} : Contains(u, kw)
      THEN <<"modification_operations">> ELSE <<>>)
     \o (IF \E kw \in {W_SYSTEM, W_EXEC, W_SHELL} : Contains(u, kw)
         THEN <<"system_functions">> ELSE <<>>)
     \o (IF Count(u, W_UNION) > 10 THEN <<"excessive_unions">> ELSE <<>>)

PassesSteps1to4(q) ==
  /\ ~IsBlank(q)
  /\ TextLen(Strip(q)) <= max_query_length
  /\ detect_query_type(q) = "SELECT"
  /\ validate_query_syntax(Strip(q)).is_valid

\* C3: a SELECT query that passes policy steps 1-4 is rejected by the dangerous-pattern
\* scan of executeCustom and validateOnly iff it contains, in any case and anywhere, a
\* modification keyword, a system-function token, or more than 10 UNIONs; the rejection
\* lists exactly the categories that matched; the detected type stays SELECT.
C3_DangerousScan ==
  (/\ req \in {"custom", "validate_only"}
   /\ Finished
   /\ PassesSteps1to4(query)) =>
    LET expected == C3_Expected(query)
    IN /\ (Category(result[1]) = "dangerous_patterns") <=> (expected # <<>>)
       /\ expected # <<>> =>
            /\ ~result[1].success
            /\ result[1].metadata[1].patterns = expected
            /\ sent = <<>>
       /\ req = "validate_only" => (result[1].success <=> expected = <<>>)
       /\ detect_query_type(query) = "SELECT"

\* C3 witness: "SELECT drop" plus SHELL was rejected with both categories listed.
C3_Witness ==
  /\ req = "validate_only" /\ Finished
  /\ query = F_SELECT \o F_drop \o W_SHELL
  /\ result[1].metadata[1].patterns = <<"modification_operations", "system_functions">>

C4_Order == <<"empty", "length", "type", "validator", "dangerous">>
C4_Categories ==
  <<"empty_query", "query_too_long", "invalid_query_type", "syntax_error",
    "dangerous_patterns">>

\* whether q fails check number i of C4_Order, taken on its own
C4_Fails(q, i) ==
  CASE i = 1 -> IsBlank(q)
    [] i = 2 -> TextLen(Strip(q)) > max_query_length
    [] i = 3 -> detect_query_type(q) # "SELECT"
    [] i = 4 -> ~validate_query_syntax(Strip(q)).is_valid
    [] i = 5 -> C3_Expected(q) # <<>>

\* the first check of C4_Order that q fails, 0 when it fails none
C4_FirstFailing(q) ==
  IF C4_Fails(q, 1) THEN 1
  ELSE IF C4_Fails(q, 2) THEN 2
  ELSE IF C4_Fails(q, 3) THEN 3
  ELSE IF C4_Fails(q, 4) THEN 4
  ELSE IF C4_Fails(q, 5) THEN 5
  ELSE 0

\* C4: the policy checks run in the order empty, length, type, Validator, dangerous
\* patterns and stop at the first that fails: the reported error is that of the first
\* failing check, no later check was evaluated and no store call was made (looked at
\* when the policy has returned and when the request is over).
C4_FirstFailingCheck ==
  (req \in {"custom", "validate_only"} /\ pc \in {"exec_entry", "done"}) =>
    LET first == C4_FirstFailing(query)
    IN IF first = 0
       THEN /\ validation_result[1].success
            /\ checks = C4_Order
       ELSE    /\ Category(validation_result[1]) = C4_Categories[first]
               /\ checks = SubSeq(C4_Order, 1, first)
               /\ sent = <<>>
               /\ Finished /\ result = validation_result

\* C4 witness: a query that is too long and also contains a dangerous keyword was
\* rejected as too long, after two checks.
C4_Witness ==
  /\ req = "custom" /\ Finished
  /\ Category(result[1]) = "query_too_long"
  /\ checks = <<"empty", "length">>
  /\ C4_Fails(query, 2) /\ ~C4_Fails(query, 3) /\ C4_Fails(query, 5)

\* C5: in execute with validate=true, when the Validator rejects the sanitized query
\* the result is success=false with the Validator's message, and the store was never
\* called: no attempt, no backoff sleep.
C5_ExecValidationFailure ==
  (squery # None /\ validate) =>
    LET validation == validate_query_syntax(sanitize_query_input(query))
    IN ~validation.is_valid =>
         /\ sent = <<>> /\ outcomes = <<>> /\ sleeps = <<>> /\ attempt = 0
         /\ ExecReturned
         /\ ~qresult[1].success
         /\ qresult[1].data = None
         /\ qresult[1].error =
              Some(<<"Query validation failed: ", validation.error_message[1]>>)

\* C5 witness: a query whose closing brace sits in a comment is balanced as given,
\* unbalanced once sanitized, and was rejected by execute.
C5_Witness ==
  /\ req = "execute" /\ Finished /\ validate
  /\ validate_query_syntax(query).is_valid
  /\ result[1].error = Some(<<"Query validation failed: ", "Unbalanced braces in query">>)
  /\ sent = <<>>

\* C6: one call of execute makes at most maxRetries attempts against the store, and
\* every attempt that was followed by another one failed with a query-level error.
C6_AtMostMaxRetries ==
  /\ Len(sent) <= max_retries
  /\ Len(outcomes) = Len(sent)
  /\ \A i \in 1..(Len(outcomes) - 1) : outcomes[i].kind = "query_error"

\* C6 witness: with the default maxRetries of 3, three attempts were made.
C6_Witness ==
  /\ max_retries = default_max_retries
  /\ Len(sent) = default_max_retries
  /\ Finished

\* C7: an attempt that fails with an unexpected error is the last one: no store call
\* and no backoff sleep follow it, whatever its number and however many query-level
\* failures came before, and the result is success=false with that error.
C7_UnexpectedNotRetried ==
  \A i \in 1..Len(outcomes) :
    outcomes[i].kind = "unexpected" =>
      /\ i = Len(outcomes)
      /\ Len(sent) = i
      /\ sleeps = LinearBackoff(i - 1)
      /\ ExecReturned
      /\ ~qresult[1].success
      /\ qresult[1].error = Some(<<"Unexpected error: ", outcomes[i].exc>>)

\* C7 witness: two query-level failures, then an unexpected error on the third attempt.
C7_Witness ==
  /\ Finished
  /\ Len(outcomes) = 3
  /\ outcomes[1].kind = "query_error" /\ outcomes[2].kind = "query_error"
  /\ outcomes[3].kind = "unexpected"

C9_ExhaustedLastError ==
  (/\ max_retries >= 1
   /\ Len(outcomes) = max_retries
   /\ \A i \in 1..Len(outcomes) : outcomes[i].kind = "query_error") =>
    /\ sleeps = LinearBackoff(max_retries - 1)
    /\ last_error = Some(<<"SPARQL error: ", outcomes[max_retries].exc>>)
    /\ ExecReturned =>
         /\ ~qresult[1].success
         /\ qresult[1].error = Some(<<"SPARQL error: ", outcomes[max_retries].exc>>)

\* C9 witness: three query-level failures, the last with another error than the first.
C9_Witness ==
  /\ Finished
  /\ max_retries = 3
  /\ Len(outcomes) = 3
  /\ outcomes[1].exc = "QueryBadFormed"
  /\ outcomes[3].exc = "EndPointNotFound"
  /\ result[1].error = Some(<<"SPARQL error: ", "EndPointNotFound">>)

\* C10: every QueryResult returned by execute, for every query, validate flag,
\* maxRetries value and store behaviour, has success=true => data present and error
\* absent, and success=false => error present.
C10_QueryResultInvariant ==
  ExecReturned =>
    /\ qresult[1].success => (qresult[1].data # None /\ qresult[1].error = None)
    /\ ~qresult[1].success => qresult[1].error # None


\* C11: sanitize_query_input is idempotent: for every query, including queries with
\* '#', null bytes, newlines and runs of whitespace, sanitizing the sanitized text
\* gives the sanitized text again.
C11_SanitizeIdempotent ==
  (req = "sanitize" /\ pc = "done") => result = squery

Validated == req = "validate" /\ pc = "done"

\* the types in the order the claim fixes, each with its keyword
C12_Order ==
  << <<"SELECT", W_SELECT>>, <<"CONSTRUCT", W_CONSTRUCT>>, <<"ASK", W_ASK>>,
     <<"DESCRIBE", W_DESCRIBE>>, <<"INSERT", W_INSERT>>, <<"DELETE", W_DELETE>> >>

\* the keyword kw, in any case, occurs in text followed by a whitespace character
C12_Occurs(text, kw) ==
  \E i \in 1..(Len(text) - Len(kw)) :
    /\ Upper(SubSeq(text, i, i + Len(kw) - 1)) = kw
    /\ text[i + Len(kw)] \in Whitespace

\* the first type of C12_Order whose keyword occurs in text, UNKNOWN when none does
C12_FirstInOrder(text) ==
  LET hits == {n \in 1..Len(C12_Order) : C12_Occurs(text, C12_Order[n][2])}
  IN IF hits = {} THEN "UNKNOWN"
     ELSE C12_Order[CHOOSE n \in hits : \A m \in hits : n <= m][1]

Classified == IF detected_type = None THEN "UNKNOWN" ELSE detected_type[1]

UnknownTypeMessage ==
  "Unknown query type. Query must start with SELECT, CONSTRUCT, ASK, DESCRIBE, INSERT, or DELETE"

\* C12 as stated: for a non-empty query, classify returns the first type, in the order
\* SELECT, CONSTRUCT, ASK, DESCRIBE, INSERT, DELETE, whose keyword followed by
\* whitespace occurs anywhere in the query (in any case), and UNKNOWN when none occurs.
C12_ClassifyFirstInOrder ==
  (Validated /\ ~IsBlank(query)) => Classified = C12_FirstInOrder(query)

\* C12 amended: the same, with the occurrence looked for in the query without its
\* leading and trailing whitespace (the text the classification loop is given), so
\* that a keyword followed only by trailing whitespace does not count; UNKNOWN is
\* reported as the "Unknown query type" failure and a valid result carries the type.
C12_ClassifyFirstInOrderStripped ==
  (Validated /\ ~IsBlank(query)) =>
    /\ Classified = C12_FirstInOrder(Strip(query))
    /\ Classified = "UNKNOWN" <=> result[1].error_message = Some(UnknownTypeMessage)
    /\ result[1].is_valid => result[1].query_type = detected_type

\* C12 witness: ASK comes first in the text, after a PREFIX declaration, and a
\* lower-case select follows it: the query is classified SELECT.
C12_Witness ==
  /\ Validated
  /\ query = F_PREFIX_DECL \o F_ASK_NL \o F_select_tab \o F_VAR
  /\ Classified = "SELECT"

\* C13: every query in which the number of '{' differs from the number of '}' is
\* answered by validate_query_syntax with is_valid = false, whichever other check
\* (empty, unknown type, injection pattern) also applies.
C13_UnbalancedInvalid ==
  (Validated /\ CountChar(query, "{") # CountChar(query, "}")) => ~result[1].is_valid

\* C13 witness: a SELECT query without injection pattern was refused only for its
\* single '}'.
C13_Witness ==
  /\ Validated
  /\ CountChar(query, "{") < CountChar(query, "}")
  /\ Classified = "SELECT"
  /\ result[1].error_message = Some("Unbalanced braces in query")

\* no blocking check applies to the query: it is not empty, has a known type, matches
\* no injection pattern and has balanced braces
C14_OnlyAdvisory(q) ==
  /\ ~IsBlank(q)
  /\ C12_FirstInOrder(Strip(q)) # "UNKNOWN"
  /\ ~MatchesInjection(Strip(q))
  /\ CountChar(q, "{") = CountChar(q, "}")

\* C14: every ValidationResult returned by validate_query_syntax with is_valid = false
\* has an error message, and suggestions never block: a query to which no blocking
\* check applies is valid, whatever advisory suggestions (SELECT without WHERE, ':'
\* without PREFIX) it triggers.
C14_ValidationResultInvariant ==
  Validated =>
    /\ ~result[1].is_valid => result[1].error_message # None
    /\ C14_OnlyAdvisory(query) => result[1].is_valid

\* C14 witness: a valid result that carries both advisory suggestions.
C14_Witness ==
  /\ Validated
  /\ result[1].is_valid
  /\ result[1].suggestions =
       Some(<<"Consider adding a WHERE clause for better query structure",
              "Define PREFIX declarations for namespace shortcuts">>)

Responded == req = "custom" /\ pc = "responded"

\* the status code the claim gives the error category of a failed request
C15_Expected ==
  IF PolicyRejected \/ ExecValidationRejected THEN 400
  ELSE LET last == outcomes[Len(outcomes)]
       IN CASE last.exc = "QueryBadFormed" -> 400
            [] last.exc = "timed out" -> 408
            [] last.exc \in {"EndPointNotFound", "URLError"} -> 503
            [] OTHER -> 500

\* C15: at POST /sparql/query every failed result is answered with the HTTP status of
\* its error category: syntax, validation, malformed, empty-query and
\* dangerous-pattern errors give 400, timeouts 408, connection and endpoint errors
\* 503, anything else 500; this holds for every error the Custom Query Service
\* produces, the unbalanced-braces, unsafe-patterns, too-long and only-SELECT
\* rejections included.
C15_StatusOfCategory ==
  (Responded /\ ~result[1].success) => http_status = Some(C15_Expected)

\* perform_health_check has returned its HealthStatus
HealthChecked == req = "health_check" /\ pc = "done" /\ health_status # None

\* C16: for every outcome of perform_health_check, overall_status is "unhealthy"
\* exactly when the errors list is non-empty (whatever the warnings), "degraded"
\* exactly when errors is empty and warnings is not, and "healthy" exactly when
\* both lists are empty.
C16_OverallStatusDerivation ==
  HealthChecked =>
    LET h == health_status[1]
    IN /\ h.overall_status \in {"unhealthy", "degraded", "healthy"}
       /\ (h.overall_status = "unhealthy") <=> (h.errors # <<>>)
       /\ (h.overall_status = "degraded") <=> (h.errors = <<>> /\ h.warnings # <<>>)
       /\ (h.overall_status = "healthy") <=> (h.errors = <<>> /\ h.warnings = <<>>)
       /\ h.errors = errors
       /\ h.warnings = warnings

\* C16 witness: a health check with one error and several warnings is unhealthy
C16_Witness ==
  /\ HealthChecked
  /\ Len(health_status[1].errors) = 1
  /\ Len(health_status[1].warnings) >= 2
  /\ health_status[1].overall_status = "unhealthy"

\* the count query number i failed: the Executor raised, reported a failure, or
\* its response carries no readable count
CountFailed(i) ==
  \/ count_results[i].kind = "raises"
  \/ ~count_results[i].result.success
  \/ count_results[i].result.data[1] = SelectResponse
  \/ IntOf(count_results[i].result.data[1].results.bindings[1].count.value) = None

\* validate_ontology_data has returned its OntologyValidationResult
OntologyValidated == ontology_validation # None

\* C17: validate_ontology_data returns is_valid = true exactly when total_triples
\* > 0 and class_count > 0, a count whose query failed being None and counting
\* as not > 0; a failure of one count query leaves that count None and the
\* other three count queries are still made.
C17_OntologyValidity ==
  OntologyValidated =>
    LET o == ontology_validation[1]
        Positive(c) == c # None /\ c[1] > 0
    IN /\ o.is_valid <=> (Positive(o.total_triples) /\ Positive(o.class_count))
       /\ Len(count_results) = 4
       /\ <<o.total_triples, o.class_count, o.property_count, o.individual_count>> = counts
       /\ \A i \in 1..4 : CountFailed(i) <=> counts[i] = None
       /\ \A i \in 1..4 :
            ~CountFailed(i) =>
              counts[i] = Some(DecimalValue(
                count_results[i].result.data[1].results.bindings[1].count.value))

\* C17 witness: the class count query raised, the other three counts were
\* obtained, and the ontology is reported invalid although it has triples
C17_Witness ==
  /\ OntologyValidated
  /\ req = "validate_ontology"
  /\ count_results[2].kind = "raises"
  /\ ontology_validation[1].total_triples = Some(150)
  /\ ontology_validation[1].class_count = None
  /\ ontology_validation[1].property_count = Some(5)
  /\ ontology_validation[1].individual_count = Some(0)
  /\ ~ontology_validation[1].is_valid

\* generate_sparql(question) has been called at least once
Generated == req = "generate_sparql" /\ generated # <<>>

\* the template with every replacement field {key} replaced by value
C18_Filled(template, key, value) ==
  Flatten([i \in 1..Len(template) |->
             IF IsField(template, i, key) THEN value
             ELSE IF (i > 1 /\ IsField(template, i - 1, key))
                       \/ (i > 2 /\ IsField(template, i - 2, key)) THEN <<>>
             ELSE <<template[i]>>])

\* C18: for every question, generate_sparql returns a complete SELECT query:
\* the all_persons template, or the search_by_name / by_person_type template
\* with its placeholder replaced by the extracted token; it never raises, also
\* for a search_by_name question with a non-empty name and for a by_person_type
\* question.
C18_GenerateNeverRaises ==
  Generated =>
    \A n \in 1..Len(generated) :
      /\ generated[n].kind = "returns"
      /\ generated[n].text =
           IF question_type = Some("search_by_name") /\ extracted # Some(<<>>)
           THEN C18_Filled(search_by_name_template, "name", extracted[1])
           ELSE IF question_type = Some("by_person_type") /\ extracted # Some(<<>>)
           THEN C18_Filled(by_person_type_template, "person_type", extracted[1])
           ELSE all_persons_template

\* the first group, in the order all_persons, search_by_name, by_person_type,
\* with a pattern the lower-cased question matches; all_persons when none does
C19_FirstMatching(s) ==
  IF MatchesGroup("all_persons", s) THEN "all_persons"
  ELSE IF MatchesGroup("search_by_name", s) THEN "search_by_name"
  ELSE IF MatchesGroup("by_person_type", s) THEN "by_person_type"
  ELSE "all_persons"

\* every call made so far returned the all_persons template
C19_AllPersonsVerbatim ==
  \A n \in 1..Len(generated) : generated[n] = Returns(all_persons_template)

\* the question holds no line break before its last character
C19_OneLine(s) == \A k \in 1..Len(s) : s[k] = "\n" => k = Len(s)

\* C19 as stated: the groups are tested in the order all_persons,
\* search_by_name, by_person_type on the lower-cased question and the first
\* matching group wins; every question that matches an all_persons pattern, and
\* every question that starts with 'qui', yields the all_persons template
\* verbatim on every call.
C19_QuiAlwaysAllPersons ==
  Generated =>
    /\ question_type = Some(C19_FirstMatching(Lower(question)))
    /\ (MatchesGroup("all_persons", Lower(question)) \/ MatchAt(Lower(question), 1, T_qui))
         => C19_AllPersonsVerbatim

\* C19, amended: as stated, but of the questions that start with 'qui' only
\* those that hold no line break before their last character are all_persons.
C19_QuiLineAllPersons ==
  Generated =>
    /\ question_type = Some(C19_FirstMatching(Lower(question)))
    /\ (MatchesGroup("all_persons", Lower(question))
          \/ (MatchAt(Lower(question), 1, T_qui) /\ C19_OneLine(Lower(question))))
         => C19_AllPersonsVerbatim

\* C19 witness: "Qui est Bob ?" also matches a search_by_name pattern and was
\* answered twice with the all_persons template
C19_Witness ==
  /\ Generated
  /\ question = <<"Q", "u", "i", " ", "e", "s", "t", " ", "B", "o", "b", " ", "?">>
  /\ MatchesGroup("search_by_name", Lower(question))
  /\ question_type = Some("all_persons")
  /\ Len(generated) = 2
  /\ generated[1] = Returns(all_persons_template)
  /\ generated[2] = generated[1]

\* C20: "Trouve Zzyzx" is a search_by_name question from which no name is
\* extracted, and generate_sparql falls back to the all_persons template;
\* whenever the name extracted is empty, generate_sparql returns the
\* all_persons template.
C20_FallbackWhenNoName ==
  Generated =>
    /\ question = <<"T", "r", "o", "u", "v", "e", " ", "Z", "z", "y", "z", "x">>
         => /\ question_type = Some("search_by_name")
            /\ extracted = Some(<<>>)
            /\ \A n \in 1..Len(generated) : generated[n] = Returns(all_persons_template)
    /\ (question_type = Some("search_by_name") /\ extracted = Some(<<>>))
         => \A n \in 1..Len(generated) : generated[n] = Returns(all_persons_template)

\* execute_custom_query has returned formatted results for a store response of
\* the shape {head: {vars}, results: {bindings}}
C21_Formatted ==
  /\ req = "custom" /\ pc = "done" /\ format_results = Some(TRUE)
  /\ result # None /\ result[1].success
  /\ qresult # None /\ qresult[1].data # None
  /\ "head" \in DOMAIN qresult[1].data[1]
  /\ "vars" \in DOMAIN qresult[1].data[1].head
  /\ "results" \in DOMAIN qresult[1].data[1]
  /\ "bindings" \in DOMAIN qresult[1].data[1].results

\* the local name of a URI: what follows its last '#', else its last '/', else
\* the whole URI
C21_LocalName(uri) ==
  LET hashes == {i \in 1..Len(uri) : uri[i] = "#"}
      slashes == {i \in 1..Len(uri) : uri[i] = "/"}
      cut == IF hashes # {} THEN hashes ELSE slashes
  IN IF cut = {} THEN uri
     ELSE SubSeq(uri, (CHOOSE i \in cut : \A j \in cut : j <= i) + 1, Len(uri))

\* C21: with format_results = true and a successful store response
\* {head: {vars}, results: {bindings}}, execute_custom_query returns the declared
\* variables of the response and, for each raw binding and each declared
\* variable bound in it, an entry {value, type, datatype, lang}, with the local
\* name added when the type is 'uri'; there are as many formatted bindings as
\* raw bindings.
C21_FormattedBindings ==
  C21_Formatted =>
    LET raw == qresult[1].data[1]
        data == result[1].data[1]
    IN /\ data.variables = raw.head.vars
       /\ Len(data.bindings) = Len(raw.results.bindings)
       /\ \A i \in 1..Len(raw.results.bindings) :
            \A var \in Range(raw.head.vars) \cap DOMAIN raw.results.bindings[i] :
              /\ var \in DOMAIN data.bindings[i]
              /\ data.bindings[i][var] # None
              /\ data.bindings[i][var][1].value = raw.results.bindings[i][var].value
              /\ data.bindings[i][var][1].type = raw.results.bindings[i][var].type
              /\ raw.results.bindings[i][var].type = "uri" =>
                   data.bindings[i][var][1].local_name
                     = C21_LocalName(raw.results.bindings[i][var].value)

\* the calls of get_sparql_service that have returned
SparqlCalls == {i \in 1..Len(calls) : calls[i].accessor = "get_sparql_service"}

\* the calls of get_health_monitoring_service that have returned
HealthCalls == {i \in 1..Len(calls) : calls[i].accessor = "get_health_monitoring_service"}

\* only thread 1 has made calls: the calls form a sequence
C22_Sequential ==
  /\ \A i \in 1..Len(calls) : calls[i].thread = 1
  /\ \A t \in Threads \ {1} : threads[t].pc = "idle"

\* C22: the process-wide service instance is keyed by endpoint URL: after any
\* sequence of get_sparql_service calls the instance returned for endpoint e has
\* fuseki_endpoint = e, and any two calls with the same endpoint return the same
\* instance, also when calls for another endpoint were made between them.
C22_KeyedByEndpoint ==
  C22_Sequential =>
    /\ \A i \in SparqlCalls : services[calls[i].instance] = calls[i].endpoint[1]
    /\ \A i \in SparqlCalls, j \in SparqlCalls :
         calls[i].endpoint = calls[j].endpoint => calls[i].instance = calls[j].instance

\* every call of get_sparql_service made so far, returned or not, names the
\* same endpoint
C30_SameEndpoint ==
  Cardinality({calls[i].endpoint : i \in SparqlCalls}
                \cup {threads[t].endpoint : t \in {u \in Threads : threads[u].endpoint # None}})
    <= 1

\* C30: without a lock, in every interleaving of two request threads that ask
\* for the service of the same endpoint, exactly one SPARQLQueryService and one
\* HealthMonitoringService are constructed, every thread receives that
\* instance, and the shared instance is never replaced by another one.
C30_OneInstance ==
  C30_SameEndpoint =>
    /\ Len(services) <= 1
    /\ Len(monitors) <= 1
    /\ \A i \in SparqlCalls, j \in SparqlCalls : calls[i].instance = calls[j].instance
    /\ \A i \in HealthCalls, j \in HealthCalls : calls[i].instance = calls[j].instance

\* C23: in the Custom Query Service path the query is sanitized before it is
\* validated and before it is executed: the policy checks of
\* execute_custom_query and the store are applied to the same sanitized text.
C23_PolicyOnSanitizedText ==
  (req = "custom" /\ validation_result # None) =>
    /\ validation_result[1] = validate_custom_query_run(sanitize_query_input(query)).result
    /\ \A i \in 1..Len(sent) : sent[i] = sanitize_query_input(query)

\* the keywords of the dangerous-pattern scan
C27_Keywords == {W_INSERT, W_DELETE, W_DROP, W_CLEAR, W_LOAD, W_SYSTEM, W_EXEC, W_SHELL}

\* C27: for every input of execute_custom_query, null bytes, comments and
\* whitespace included, no query text sent to the store holds one of the
\* keywords INSERT, DELETE, DROP, CLEAR, LOAD, SYSTEM, EXEC, SHELL in any case.
C27_NoKeywordReachesStore ==
  req = "custom" =>
    \A i \in 1..Len(sent) : \A kw \in C27_Keywords : ~Contains(Upper(sent[i]), kw)

\* the attempt number i ended in a timeout or in a transport-level connection
\* failure: urllib's URLError or socket timeout, which sparql.query() lets through
C24_TransportFailure(i) ==
  outcomes[i].kind = "unexpected" /\ outcomes[i].exc \in {"URLError", "timed out"}

\* C24: timeout and connection errors surfacing from the store are retried per
\* the backoff policy: when an attempt that is not the final one ends in a
\* timeout or a transport-level connection failure, execute sleeps 0.5 * attempt
\* number seconds and makes another attempt.
C24_TransportFailureRetried ==
  ExecReturned =>
    \A i \in 1..Len(outcomes) :
      (C24_TransportFailure(i) /\ i < max_retries) =>
        /\ Len(outcomes) > i
        /\ Len(sleeps) >= i
        /\ sleeps[i] = backoff_ms * i

\* C25: on a successful attempt, bindings_count of the QueryResult is the length
\* of the bindings array of the store response, and 0 when the response has no
\* bindings array (an ASK response {boolean: ...}).
C25_BindingsCount ==
  (/\ ExecReturned
   /\ outcomes # <<>>
   /\ outcomes[Len(outcomes)].kind = "success") =>
    LET data == qresult[1].data[1]
    IN /\ qresult[1].success
       /\ qresult[1].bindings_count =
            IF "results" \in DOMAIN data /\ "bindings" \in DOMAIN data.results
            THEN Some(Len(data.results.bindings))
            ELSE Some(0)

\* the warnings and errors the probe results call for, in the order of the probes
C26_ExpectedWarnings ==
  LET c == fuseki_connection[1]
      o == ontology_validation[1]
      m == system_metrics[1]
  IN (IF c.response_time # None /\ c.response_time[1] > slow_response_ms
      THEN <<"Fuseki response time is slow: ">> ELSE <<>>)
     \o (IF o.total_triples # None /\ o.total_triples[1] < low_triples
         THEN <<"Low number of triples in ontology: ">> ELSE <<>>)
     \o (IF m.cpu_usage > high_usage THEN <<"High CPU usage: ">> ELSE <<>>)
     \o (IF m.memory_usage > high_usage THEN <<"High memory usage: ">> ELSE <<>>)
     \o (IF m.disk_usage > high_usage THEN <<"High disk usage: ">> ELSE <<>>)

C26_ExpectedErrors ==
  (IF ~fuseki_connection[1].is_connected
   THEN <<"Fuseki connection failed: ">> ELSE <<>>)
  \o (IF ~ontology_validation[1].is_valid
      THEN <<"Ontology validation failed: ">> ELSE <<>>)

\* C26: for every combination of probe results, perform_health_check appends a
\* warning whenever the connection response time is above 5 s, whenever the
\* triple count is below 100 and whenever CPU, memory or disk usage is above
\* 90 %, and an error whenever the connection failed and whenever the ontology
\* is invalid; the lists hold nothing else.
C26_ListsPopulated ==
  HealthChecked =>
    /\ [i \in 1..Len(warnings) |-> warnings[i].text] = C26_ExpectedWarnings
    /\ [i \in 1..Len(errors) |-> errors[i].text] = C26_ExpectedErrors

\* POST /api/ai/query was answered after generate_sparql returned a query
C28_Answered ==
  /\ req = "ai_query"
  /\ pc = "done"
  /\ generated # <<>>
  /\ generated[1].kind = "returns"

\* the SELECT clause of the templates
C28_SelectClause ==
  <<"S", "E", "L", "E", "C", "T", " ", "?", "p", "e", "r", "s", "o", "n", " ",
    "?", "n", "a", "m", "e", " ", "?", "t", "y", "p", "e">>

\* C28: for every question, the query generate_sparql returns survives the
\* Executor's sanitize and validate steps on the way of POST /api/ai/query: it
\* is not rejected by validation, and at least one store call is made with a
\* query that still holds the SELECT clause of the template.
C28_GeneratedQuerySurvives ==
  C28_Answered =>
    /\ qresult # None
    /\ ~(/\ ~qresult[1].success
         /\ qresult[1].error[1][1] = "Query validation failed: ")
    /\ sent # <<>>
    /\ Contains(sent[1], C28_SelectClause)

\* _validate_custom_query has made its SELECT-only check
C29_TypeChecked ==
  /\ req \in {"custom", "validate_only"}
  /\ validation_result # None
  /\ "type" \in Range(checks)

\* C29: _detect_query_type agrees with the Validator's classification on every
\* query: whenever the Validator classifies the query as SELECT (the keyword
\* followed by any whitespace character), the SELECT-only check of the custom
\* policy sees type SELECT too and does not reject the query as non-SELECT.
C29_DetectionAgrees ==
  (C29_TypeChecked /\ PatternQueryType(Strip(query)) = Some("SELECT")) =>
    /\ detect_query_type(Strip(query)) = "SELECT"
    /\ validation_result[1] # RejectType(detect_query_type(Strip(query)))
====
